---- MODULE Spec2Model ----
(***************************************************************************)
(* State-machine model of the CMSCure JavaScript SDK engine                *)
(* (src/src/cmscure.js, class CMSCureSDK): content synchronisation,        *)
(* language resolution, durable state and live bindings.                   *)
(*                                                                         *)
(* Every handler of the class is a pure operator on an engine record `e'   *)
(* that holds the private fields of the class, the durable store, the      *)
(* requests in flight and the outputs of the handler that is running.  An  *)
(* action takes the record of the current state (Cur), applies the         *)
(* handler up to its next suspension point (await), and commits the        *)
(* result.  JavaScript runs each such piece to completion, so one action   *)
(* is one run-to-completion step of the event loop.                        *)
(***************************************************************************)
EXTENDS Integers, Sequences, FiniteSets, Bags, TLC

VARIABLES
    config, authToken, availableLanguages, availableLanguageLookup,
    currentLanguage, cache, dataStoreCache, socket, handshakeAcknowledged,
    knownTabs, knownStores, autoSubscribedTabs, autoSubscribedStores,
    autoSubscribedColors, autoSubscribedImages, syncingTabs, syncingStores,
    colorsSyncInFlight, imagesSyncInFlight, autoLanguageResolved,
    desiredDefaultLanguage, bindingChannels,
    storage,        \* window.localStorage, the durable store
    navigator,      \* navigator.languages of the host, fixed per page load
    fetches,        \* bag of content requests awaiting their response
    handshake,      \* the handshake message of the current connection
    cycle,          \* position of the running #authenticateAndSync
    handles,        \* the unsubscribe functions the application holds
    accessed,       \* history: the scopes the application has read since configure
    last            \* history: what the last step was and what it emitted

vars == << config, authToken, availableLanguages, availableLanguageLookup,
           currentLanguage, cache, dataStoreCache, socket, handshakeAcknowledged,
           knownTabs, knownStores, autoSubscribedTabs, autoSubscribedStores,
           autoSubscribedColors, autoSubscribedImages, syncingTabs, syncingStores,
           colorsSyncInFlight, imagesSyncInFlight, autoLanguageResolved,
           desiredDefaultLanguage, bindingChannels, storage, navigator,
           fetches, handshake, cycle, handles, accessed, last >>

----------------------------------------------------------------------------
(* Bounds and finite input domains.                                        *)

\* Most requests that may await a response at once, per scope.
MaxInFlight == 2

\* Most scopes the application reads in one page load (SpecQuery).
MaxScopesRead == 2

None == "null"              \* JavaScript null / undefined of a string slot

Tabs == {"home", "about"}
Keys == {"title", "cta"}
Stores == {"products"}
ColorKeys == {"primary"}
ImageKeys == {"logo"}
Tokens == {"tok1", "tok2"}
Listeners == {"f1", "f2"}

ColorsScope == "__colors__"
ImagesScope == "__images__"
AllScope == "__ALL__"

----------------------------------------------------------------------------
(* Strings: String.prototype.toLowerCase and split('-')[0] on the language *)
(* codes the model uses.                                                   *)

Lower(s) ==
    CASE s = "EN" -> "en"
      [] s = "FR" -> "fr"
      [] s = "fr-CA" -> "fr-ca"
      [] OTHER -> s

BaseOf(s) ==
    CASE s = "fr-ca" -> "fr"
      [] s = "fr-CA" -> "fr"
      [] OTHER -> s

Range(seq) == { seq[i] : i \in 1..Len(seq) }

\* Array.prototype.includes / indexOf on a sequence
Includes(seq, x) == \E i \in 1..Len(seq) : seq[i] = x

----------------------------------------------------------------------------
(* Values a query can return.  A value carries its JavaScript kind, so     *)
(* that values of different kinds compare unequal.  An array carries an    *)
(* identity: "fresh" for an array literal or copy made by the call.        *)

VStr(s) == << "string", s >>
VNull == << "null" >>
VUndef == << "undefined" >>
VList(items, identity) == << "array", items, identity >>

\* a ?? b
Nullish(v) == v = VNull \/ v = VUndef
Coalesce(a, b) == IF Nullish(a) THEN b ELSE a

\* a string slot that may hold null/undefined, as a value
OfSlot(s) == IF s = None THEN VUndef ELSE VStr(s)

\* Object.is(a, b): arrays are equal only when they are the same object
ObjectIs(a, b) ==
    IF a[1] = "array" \/ b[1] = "array"
    THEN a = b /\ a[3] # "fresh"
    ELSE a = b

\* `[${tab}:${key}]`
Fallback(tab, key) == "[" \o tab \o ":" \o key \o "]"

----------------------------------------------------------------------------
(* The engine record: the private fields of CMSCureSDK (cmscure.js 6-30),  *)
(* the host's store and network, and the outputs of the running handler.   *)

NoConfig == [ projectId |-> FALSE, apiKey |-> FALSE,
              defaultLanguage |-> None, projectSecret |-> FALSE ]

EmptyFn == [ x \in {} |-> None ]

EmptyStorage ==
    [ auth_token |-> None,
      available_languages |-> [ has |-> FALSE, text |-> << >> ],
      current_language |-> None,
      cache |-> [ has |-> FALSE, text |-> {} ],
      datastore_cache |-> [ has |-> FALSE, text |-> {} ],
      known_tabs |-> [ has |-> FALSE, text |-> << >> ],
      known_stores |-> [ has |-> FALSE, text |-> << >> ] ]

Cur ==
    [ config |-> config, authToken |-> authToken,
      availableLanguages |-> availableLanguages,
      availableLanguageLookup |-> availableLanguageLookup,
      currentLanguage |-> currentLanguage, cache |-> cache,
      dataStoreCache |-> dataStoreCache, socket |-> socket,
      handshakeAcknowledged |-> handshakeAcknowledged,
      knownTabs |-> knownTabs, knownStores |-> knownStores,
      autoSubscribedTabs |-> autoSubscribedTabs,
      autoSubscribedStores |-> autoSubscribedStores,
      autoSubscribedColors |-> autoSubscribedColors,
      autoSubscribedImages |-> autoSubscribedImages,
      syncingTabs |-> syncingTabs, syncingStores |-> syncingStores,
      colorsSyncInFlight |-> colorsSyncInFlight,
      imagesSyncInFlight |-> imagesSyncInFlight,
      autoLanguageResolved |-> autoLanguageResolved,
      desiredDefaultLanguage |-> desiredDefaultLanguage,
      bindingChannels |-> bindingChannels,
      storage |-> storage, navigator |-> navigator,
      fetches |-> fetches, handshake |-> handshake, cycle |-> cycle,
      accessed |-> accessed,
      \* outputs of the handler that runs in this step
      ret |-> VUndef, events |-> << >>, calls |-> << >>, started |-> << >>,
      branch |-> "none" ]

\* A request in flight: fetch(...) of #syncTab / #syncStore / #syncColors /
\* #syncImages.  `reason' is options.reason; `noop' records that the request
\* was started by a setLanguage call that left the language unchanged.
Fetch(kind, name, force, reason, noop) ==
    [ kind |-> kind, name |-> name, force |-> force, reason |-> reason,
      noop |-> noop ]

Outstanding(bag, kind, name) ==
    LET S == { f \in BagToSet(bag) : f.kind = kind /\ f.name = name }
        RECURSIVE Sum(_)
        Sum(T) == IF T = {} THEN 0
                  ELSE LET f == CHOOSE g \in T : TRUE
                       IN  CopiesIn(f, bag) + Sum(T \ {f})
    IN  Sum(S)

Scopes ==
    { << "tab", t >> : t \in Tabs } \cup { << "store", s >> : s \in Stores }
      \cup { << "colors", ColorsScope >>, << "images", ImagesScope >> }

\* The model's bound on the network: no scope has more than MaxInFlight
\* requests awaiting a response.
Bounded(e) ==
    \A sc \in Scopes : Outstanding(e.fetches, sc[1], sc[2]) <= MaxInFlight

----------------------------------------------------------------------------
(* JSON.  A serialised object is the set of the paths it holds: <<a>> for  *)
(* a top-level property, <<a, k>> for a nested one, <<a, k, p, v>> for a   *)
(* string leaf.  JSON.stringify drops a property whose value is undefined. *)
(* An object of the content cache is [defined, props]: `defined' is FALSE  *)
(* for a slot that holds undefined (a payload item without `values').      *)

Obj(props) == [ defined |-> TRUE, props |-> props ]
UndefinedObj == [ defined |-> FALSE, props |-> EmptyFn ]

\* obj?.[p] for a string property
Prop(obj, p) ==
    IF obj.defined /\ p \in DOMAIN obj.props THEN obj.props[p] ELSE None

\* JSON.stringify(this.#cache)
StringifyCache(c) ==
    LET DefinedKeys(s) == { k \in DOMAIN c[s] : c[s][k].defined }
        Leaves(s, k) == { p \in DOMAIN c[s][k].props : c[s][k].props[p] # None }
    IN  { << s >> : s \in DOMAIN c }
          \cup UNION { { << s, k >> : k \in DefinedKeys(s) } : s \in DOMAIN c }
          \cup UNION { UNION { { << s, k, p, c[s][k].props[p] >> : p \in Leaves(s, k) }
                               : k \in DefinedKeys(s) }
                       : s \in DOMAIN c }

\* JSON.parse of a serialised content cache
ParseCache(text) ==
    [ s \in { p[1] : p \in { q \in text : Len(q) = 1 } } |->
        [ k \in { p[2] : p \in { q \in text : Len(q) = 2 /\ q[1] = s } } |->
            Obj([ f \in { p[3] : p \in { q \in text :
                              Len(q) = 4 /\ q[1] = s /\ q[2] = k } } |->
                    (CHOOSE p \in text :
                        Len(p) = 4 /\ p[1] = s /\ p[2] = k /\ p[3] = f)[4] ]) ] ]

\* An array of store items, with the identity of the array object: a sync
\* stores a new array, never the one a binding saw before ("a" and "b" tell
\* an array from its successor).
StoreArray(items, gen) == [ items |-> items, gen |-> gen ]
NextGen(gen) == IF gen = "a" THEN "b" ELSE "a"

\* JSON.stringify(this.#dataStoreCache): each store's items, by index
StringifyStores(d) ==
    { << s >> : s \in DOMAIN d }
      \cup UNION { { << s, i, d[s].items[i] >> : i \in 1..Len(d[s].items) }
                   : s \in DOMAIN d }

ParseStores(text) ==
    [ s \in { p[1] : p \in { q \in text : Len(q) = 1 } } |->
        StoreArray([ i \in 1..Cardinality({ q \in text : Len(q) = 3 /\ q[1] = s }) |->
                       (CHOOSE p \in text : Len(p) = 3 /\ p[1] = s /\ p[2] = i)[3] ],
                   "a") ]

\* Array.from(set): the elements of a Set as an array
RECURSIVE ArrayFrom(_)
ArrayFrom(S) ==
    IF S = {} THEN << >>
    ELSE LET x == CHOOSE y \in S : TRUE
         IN  << x >> \o ArrayFrom(S \ {x})

\* this.#storageSet(key, value) on window.localStorage
StorageSet(e, key, value) == [ e EXCEPT !.storage[key] = value ]

\* mutant: only the content cache is written to the durable store
SaveCacheToStorage_CacheOnly(e) ==
    [ e EXCEPT
        !.storage.cache = [ has |-> TRUE, text |-> StringifyCache(e.cache) ] ]

\* #saveCacheToStorage (cmscure.js 265-270)
SaveCacheToStorage(e) ==
    [ e EXCEPT
        !.storage.cache = [ has |-> TRUE, text |-> StringifyCache(e.cache) ],
        !.storage.datastore_cache =
            [ has |-> TRUE, text |-> StringifyStores(e.dataStoreCache) ],
        !.storage.known_tabs = [ has |-> TRUE, text |-> ArrayFrom(e.knownTabs) ],
        !.storage.known_stores =
            [ has |-> TRUE, text |-> ArrayFrom(e.knownStores) ] ]

\* #updateAvailableLanguageLookup (cmscure.js 274-278): new Map(pairs), a
\* later pair with the same lower-cased key replaces an earlier one
UpdateAvailableLanguageLookup(langs) ==
    [ c \in { Lower(langs[i]) : i \in 1..Len(langs) } |->
        langs[CHOOSE i \in 1..Len(langs) :
                /\ Lower(langs[i]) = c
                /\ \A j \in 1..Len(langs) : Lower(langs[j]) = c => j <= i] ]

\* lookup.has(code) and lookup.get(code)
LookupHas(e, code) == code \in DOMAIN e.availableLanguageLookup
LookupGet(e, code) ==
    IF LookupHas(e, code) THEN e.availableLanguageLookup[code] ELSE None

\* #loadState (cmscure.js 238-263): each field is taken from the store only
\* when the store holds it
LoadState(e) ==
    LET st == e.storage
        langs == IF st.available_languages.has
                 THEN st.available_languages.text ELSE e.availableLanguages
    IN  [ e EXCEPT
            !.authToken = IF st.auth_token # None THEN st.auth_token ELSE @,
            !.availableLanguages = langs,
            !.availableLanguageLookup =
                IF st.available_languages.has
                THEN UpdateAvailableLanguageLookup(langs) ELSE @,
            !.currentLanguage =
                IF st.current_language # None THEN st.current_language ELSE @,
            !.cache = IF st.cache.has THEN ParseCache(st.cache.text) ELSE @,
            !.dataStoreCache =
                IF st.datastore_cache.has
                THEN ParseStores(st.datastore_cache.text) ELSE @,
            !.knownTabs =
                IF st.known_tabs.has THEN Range(st.known_tabs.text) ELSE @,
            !.knownStores =
                IF st.known_stores.has THEN Range(st.known_stores.text) ELSE @ ]

----------------------------------------------------------------------------
(* Starting a sync: the part of #syncTab / #syncStore / #syncColors /      *)
(* #syncImages that runs before the handler suspends on fetch().           *)

Start(e, f) ==
    [ e EXCEPT !.fetches = @ (+) SetToBag({ f }), !.started = Append(@, f) ]

\* #syncTab, cmscure.js 726-745
SyncTabStart(e, tab, force, reason, noop) ==
    IF e.config = NoConfig THEN e
    ELSE IF tab \in e.syncingTabs /\ ~ force THEN e
    ELSE Start([ e EXCEPT !.syncingTabs = @ \cup { tab } ],
               Fetch("tab", tab, force, reason, noop))

\* #syncStore, cmscure.js 867-885
SyncStoreStart(e, apiIdentifier, force, reason, noop) ==
    IF e.config = NoConfig THEN e
    ELSE IF apiIdentifier \in e.syncingStores /\ ~ force THEN e
    ELSE Start([ e EXCEPT !.syncingStores = @ \cup { apiIdentifier } ],
               Fetch("store", apiIdentifier, force, reason, noop))

\* mutant: the in-flight flag of the colors is not consulted
SyncColorsStart_NoFlag(e, reason, noop) ==
    IF e.config = NoConfig THEN e
    ELSE Start([ e EXCEPT !.colorsSyncInFlight = TRUE ],
               Fetch("colors", ColorsScope, FALSE, reason, noop))

\* #syncColors, cmscure.js 821-839
SyncColorsStart(e, reason, noop) ==
    IF e.config = NoConfig THEN e
    ELSE IF e.colorsSyncInFlight THEN e
    ELSE Start([ e EXCEPT !.colorsSyncInFlight = TRUE ],
               Fetch("colors", ColorsScope, FALSE, reason, noop))

\* #syncImages, cmscure.js 775-792
SyncImagesStart(e, reason, noop) ==
    IF e.config = NoConfig THEN e
    ELSE IF e.imagesSyncInFlight THEN e
    ELSE Start([ e EXCEPT !.imagesSyncInFlight = TRUE ],
               Fetch("images", ImagesScope, FALSE, reason, noop))

\* #ensureTabSubscription, cmscure.js 630-636
EnsureTabSubscription(e, tab) ==
    IF tab = "" THEN e
    ELSE IF tab \in e.autoSubscribedTabs THEN e
    ELSE SyncTabStart([ e EXCEPT !.autoSubscribedTabs = @ \cup { tab } ],
                      tab, FALSE, "AutoSubscribe", FALSE)

\* #ensureColorsSubscription, cmscure.js 638-643
EnsureColorsSubscription(e) ==
    IF e.autoSubscribedColors THEN e
    ELSE SyncColorsStart([ e EXCEPT !.autoSubscribedColors = TRUE ],
                         "AutoSubscribe", FALSE)

\* #ensureImagesSubscription, cmscure.js 645-650
EnsureImagesSubscription(e) ==
    IF e.autoSubscribedImages THEN e
    ELSE SyncImagesStart([ e EXCEPT !.autoSubscribedImages = TRUE ],
                         "AutoSubscribe", FALSE)

\* #ensureStoreSubscription, cmscure.js 652-658
EnsureStoreSubscription(e, apiIdentifier) ==
    IF apiIdentifier = "" THEN e
    ELSE IF apiIdentifier \in e.autoSubscribedStores THEN e
    ELSE SyncStoreStart([ e EXCEPT !.autoSubscribedStores = @ \cup { apiIdentifier } ],
                        apiIdentifier, FALSE, "AutoSubscribe", FALSE)

\* #refreshAutoSubscribedContent, cmscure.js 606-628: one non-forced sync per
\* subscribed scope, all started before the handler suspends
RECURSIVE RefreshTabs(_, _, _)
RefreshTabs(e, tabs, noop) ==
    IF tabs = << >> THEN e
    ELSE RefreshTabs(SyncTabStart(e, Head(tabs), FALSE, "LanguageChange", noop),
                     Tail(tabs), noop)

RECURSIVE RefreshStores(_, _, _)
RefreshStores(e, stores, noop) ==
    IF stores = << >> THEN e
    ELSE RefreshStores(SyncStoreStart(e, Head(stores), FALSE, "LanguageChange", noop),
                       Tail(stores), noop)

\* mutant: the subscribed tabs are left out of the re-sync
RefreshAutoSubscribedContent_NoTabs(e, noop) ==
    LET e2 == IF e.autoSubscribedColors
              THEN SyncColorsStart(e, "LanguageChange", noop) ELSE e
        e3 == IF e2.autoSubscribedImages
              THEN SyncImagesStart(e2, "LanguageChange", noop) ELSE e2
    IN  RefreshStores(e3, ArrayFrom(e3.autoSubscribedStores), noop)

RefreshAutoSubscribedContent(e, noop) ==
    LET e1 == RefreshTabs(e, ArrayFrom(e.autoSubscribedTabs), noop)
        e2 == IF e1.autoSubscribedColors
              THEN SyncColorsStart(e1, "LanguageChange", noop) ELSE e1
        e3 == IF e2.autoSubscribedImages
              THEN SyncImagesStart(e2, "LanguageChange", noop) ELSE e2
    IN  RefreshStores(e3, ArrayFrom(e3.autoSubscribedStores), noop)

----------------------------------------------------------------------------
(* The public queries.  Each returns the engine with `ret' set.            *)

\* history: the application reads a scope through a public query
Read(e, kind, name) == [ e EXCEPT !.accessed = @ \cup { << kind, name >> } ]

\* this.#cache?.[tab]?.[key]?.[this.#currentLanguage]
CachedTranslation(e, tab, key) ==
    IF tab \in DOMAIN e.cache /\ key \in DOMAIN e.cache[tab]
    THEN Prop(e.cache[tab][key], e.currentLanguage)
    ELSE None

\* mutant: the caller's default is passed over
TranslationE_NoDefault(e, key, tab, defaultValue) ==
    LET e1 == EnsureTabSubscription(Read(e, "tab", tab), tab)
        value == CachedTranslation(e1, tab, key)
        e2 == IF value = None
              THEN SyncTabStart(e1, tab, FALSE, "CacheMiss", FALSE) ELSE e1
    IN  [ e2 EXCEPT !.ret = Coalesce(OfSlot(value), VStr(Fallback(tab, key))) ]

\* translation(key, tab, defaultValue), cmscure.js 88-95
TranslationE(e, key, tab, defaultValue) ==
    LET e1 == EnsureTabSubscription(Read(e, "tab", tab), tab)
        value == CachedTranslation(e1, tab, key)
        e2 == IF value = None
              THEN SyncTabStart(e1, tab, FALSE, "CacheMiss", FALSE) ELSE e1
    IN  [ e2 EXCEPT !.ret = Coalesce(Coalesce(OfSlot(value), defaultValue),
                                     VStr(Fallback(tab, key))) ]

\* this.#cache.__images__?.[key]?.url || null
CachedSlot(e, scope, key, prop) ==
    IF scope \in DOMAIN e.cache /\ key \in DOMAIN e.cache[scope]
    THEN Prop(e.cache[scope][key], prop)
    ELSE None

\* image(key, defaultValue), cmscure.js 97-104
ImageE(e, key, defaultValue) ==
    LET e1 == EnsureImagesSubscription(Read(e, "images", ImagesScope))
        url == CachedSlot(e1, ImagesScope, key, "url")
        e2 == IF url = None THEN SyncImagesStart(e1, "ImageCacheMiss", FALSE) ELSE e1
    IN  [ e2 EXCEPT !.ret = Coalesce(Coalesce(IF url = None THEN VNull ELSE VStr(url),
                                              defaultValue), VNull) ]

\* color(key, defaultValue), cmscure.js 106-114
ColorE(e, key, defaultValue) ==
    LET e1 == EnsureColorsSubscription(Read(e, "colors", ColorsScope))
        value == CachedSlot(e1, ColorsScope, key, "hex")
        e2 == IF value = None THEN SyncColorsStart(e1, "ColorCacheMiss", FALSE) ELSE e1
    IN  [ e2 EXCEPT !.ret = Coalesce(Coalesce(IF value = None THEN VNull ELSE VStr(value),
                                              defaultValue), VNull) ]

\* dataStore(apiIdentifier, defaultValue = []), cmscure.js 116-119
DataStoreE(e, apiIdentifier, defaultValue) ==
    LET e1 == EnsureStoreSubscription(Read(e, "store", apiIdentifier), apiIdentifier)
    IN  [ e1 EXCEPT !.ret =
            IF apiIdentifier \in DOMAIN e1.dataStoreCache
            THEN VList(e1.dataStoreCache[apiIdentifier].items,
                       e1.dataStoreCache[apiIdentifier].gen)
            ELSE IF defaultValue = VUndef THEN VList(<< >>, "fresh")
            ELSE defaultValue ]

----------------------------------------------------------------------------
(* References.  A reference string is a sequence of tokens: words, ":" and *)
(* " " (white space), so that trim, split(':') and join(':') do their work.*)

RECURSIVE TrimLeft(_)
TrimLeft(ref) ==
    IF ref # << >> /\ Head(ref) = " " THEN TrimLeft(Tail(ref)) ELSE ref

RECURSIVE TrimRight(_)
TrimRight(ref) ==
    IF ref # << >> /\ ref[Len(ref)] = " "
    THEN TrimRight(SubSeq(ref, 1, Len(ref) - 1)) ELSE ref

\* String.prototype.trim
Trim(ref) == TrimRight(TrimLeft(ref))

\* String.prototype.split(':'): the strings between the colons
RECURSIVE SplitColon(_, _)
SplitColon(ref, parts) ==
    IF ref = << >> THEN parts
    ELSE IF Head(ref) = ":" THEN SplitColon(Tail(ref), Append(parts, ""))
    ELSE SplitColon(Tail(ref),
                    [ parts EXCEPT ![Len(parts)] = @ \o Head(ref) ])

\* Array.prototype.join(':')
RECURSIVE JoinColon(_)
JoinColon(parts) ==
    IF parts = << >> THEN ""
    ELSE IF Len(parts) = 1 THEN parts[1]
    ELSE parts[1] \o ":" \o JoinColon(Tail(parts))

\* resolve(reference, defaultValue), cmscure.js 121-167
ResolveE(e, reference, defaultValue) ==
    LET trimmed == Trim(reference)
        parts == SplitColon(trimmed, << "" >>)
        prefix == parts[1]
        remainder == JoinColon(Tail(parts))
        orNull == Coalesce(defaultValue, VNull)
    IN  IF reference = << >> \/ trimmed = << >> THEN [ e EXCEPT !.ret = orNull ]
        ELSE CASE prefix = "color" -> ColorE(e, remainder, orNull)
               [] prefix = "image" -> ImageE(e, remainder, orNull)
               [] prefix = "store" ->
                    DataStoreE(e, remainder,
                               IF defaultValue[1] = "array" THEN defaultValue
                               ELSE VList(<< >>, "fresh"))
               [] prefix = "meta" ->
                    [ e EXCEPT !.ret =
                        CASE remainder \in { "language", "current_language" } ->
                                VStr(e.currentLanguage)
                          [] remainder \in { "languages", "available_languages" } ->
                                VList(e.availableLanguages, "fresh")
                          [] remainder = "auth_token" ->
                                IF e.authToken = None THEN VNull ELSE VStr(e.authToken)
                          [] OTHER -> orNull ]
               [] OTHER ->
                    IF remainder = ""
                    THEN [ e EXCEPT !.ret =
                             Coalesce(defaultValue, VStr("[" \o prefix \o ":]")) ]
                    ELSE TranslationE(e, remainder, prefix,
                                      IF defaultValue[1] = "string"
                                      THEN defaultValue ELSE VUndef)

----------------------------------------------------------------------------
(* Events and bindings.                                                    *)

\* An event the engine dispatches (dispatchEvent(new CustomEvent(name, detail)))
Ev(name, detail) == [ name |-> name, detail |-> detail ]

Detail(reason, scope, noop) == [ reason |-> reason, scope |-> scope, noop |-> noop ]

\* One invocation of a binding listener: listener(value, detail)
Call(reference, listener, value, reason) ==
    [ reference |-> reference, listener |-> listener, value |-> value,
      reason |-> reason ]

\* A binding channel, cmscure.js 177-180; `listeners' is a Set, kept in
\* insertion order
Channel(reference, listeners, lastValue) ==
    [ reference |-> reference, listeners |-> listeners, lastValue |-> lastValue ]

\* this.#bindingChannels.get(reference): its index, 0 when absent
ChannelIndex(e, reference) ==
    IF \E i \in 1..Len(e.bindingChannels) : e.bindingChannels[i].reference = reference
    THEN CHOOSE i \in 1..Len(e.bindingChannels) :
            e.bindingChannels[i].reference = reference
    ELSE 0

\* An application listener that calls setLanguage("fr") whenever it is told
\* of a change; every other listener only takes the value.
Switcher == "switchToFr"

RECURSIVE SetLanguageE(_, _)
ListenerBody(e, listener) ==
    IF listener = Switcher THEN SetLanguageE(e, "fr") ELSE e

\* channel.listeners.forEach(listener => listener(value, detail)): each
\* listener runs to its end, with what it calls, before the next is invoked
RECURSIVE InvokeFrom(_, _, _, _, _)
InvokeFrom(e, ch, j, value, reason) ==
    IF j > Len(ch.listeners) THEN e
    ELSE InvokeFrom(
           ListenerBody([ e EXCEPT !.calls = Append(@, Call(ch.reference,
                                                ch.listeners[j], value, reason)) ],
                        ch.listeners[j]),
           ch, j + 1, value, reason)

InvokeAll(e, ch, value, reason) == InvokeFrom(e, ch, 1, value, reason)

\* #notifyBindings, cmscure.js 213-231: in Map order, re-resolve every
\* channel and tell its listeners when the value is another one
RECURSIVE NotifyFrom(_, _, _)
NotifyFrom(e, i, detail) ==
    IF i > Len(e.bindingChannels) THEN e
    ELSE LET ch == e.bindingChannels[i]
             r == ResolveE(e, ch.reference, VUndef)
             value == r.ret
         IN  IF ObjectIs(ch.lastValue, value) THEN NotifyFrom(r, i + 1, detail)
             ELSE NotifyFrom(
                    InvokeAll([ r EXCEPT !.bindingChannels[i].lastValue = value ],
                              ch, value, detail.reason),
                    i + 1, detail)

NotifyBindings(e, detail) == NotifyFrom(e, 1, detail)

\* mutant: the event is dispatched and the bindings are not notified
EmitContentUpdated_EventOnly(e, detail) ==
    [ e EXCEPT !.events = Append(@, Ev("contentUpdated", detail)) ]

\* #emitContentUpdated, cmscure.js 233-236
EmitContentUpdated(e, detail) ==
    NotifyBindings([ e EXCEPT !.events = Append(@, Ev("contentUpdated", detail)) ],
                   detail)

\* Set.prototype.add on a Set kept in insertion order
SetAdd(seq, x) == IF Includes(seq, x) THEN seq ELSE Append(seq, x)

\* Set.prototype.delete / Map.prototype.delete: drop position i
RemoveAt(seq, i) == SubSeq(seq, 1, i - 1) \o SubSeq(seq, i + 1, Len(seq))

SetDelete(seq, x) ==
    IF Includes(seq, x)
    THEN RemoveAt(seq, CHOOSE i \in 1..Len(seq) : seq[i] = x)
    ELSE seq

\* observe(reference, listener, options), cmscure.js 169-190, for a
\* reference that is not blank
ObserveE(e, reference, listener, defaultValue) ==
    LET normalized == Trim(reference)
        found == ChannelIndex(e, normalized)
        r == ResolveE(e, normalized, defaultValue)
        e1 == IF found = 0
              THEN [ r EXCEPT !.bindingChannels =
                       Append(@, Channel(normalized, << >>, r.ret)) ]
              ELSE e
        i == IF found = 0 THEN Len(e1.bindingChannels) ELSE found
        e2 == [ e1 EXCEPT !.bindingChannels[i].listeners = SetAdd(@, listener) ]
    IN  [ e2 EXCEPT !.calls = Append(@, Call(normalized, listener,
                                             e2.bindingChannels[i].lastValue,
                                             "Initial")),
                    !.ret = VUndef ]

\* mutant: the last listener of a reference leaving also empties the
\* registry of tabs
UnsubscribeE_Unregister(e, normalized, listener) ==
    LET i == ChannelIndex(e, normalized)
    IN  IF i = 0 THEN e
        ELSE LET left == SetDelete(e.bindingChannels[i].listeners, listener)
             IN  IF left = << >>
                 THEN [ e EXCEPT !.bindingChannels = RemoveAt(@, i),
                                 !.autoSubscribedTabs = {} ]
                 ELSE [ e EXCEPT !.bindingChannels[i].listeners = left ]

\* mutant: a channel stays in the registry when its last listener leaves
UnsubscribeE_KeepChannel(e, normalized, listener) ==
    LET i == ChannelIndex(e, normalized)
    IN  IF i = 0 THEN e
        ELSE [ e EXCEPT !.bindingChannels[i].listeners = SetDelete(@, listener) ]

\* mutant: the returned function leaves the listener registered
UnsubscribeE_Keep(e, normalized, listener) == e

\* the function observe returns, cmscure.js 191-200
UnsubscribeE(e, normalized, listener) ==
    LET i == ChannelIndex(e, normalized)
    IN  IF i = 0 THEN e
        ELSE LET left == SetDelete(e.bindingChannels[i].listeners, listener)
             IN  IF left = << >>
                 THEN [ e EXCEPT !.bindingChannels = RemoveAt(@, i) ]
                 ELSE [ e EXCEPT !.bindingChannels[i].listeners = left ]

----------------------------------------------------------------------------
(* Language.                                                               *)

\* #applyLanguage, cmscure.js 580-604
ApplyLanguage(e, language, emitEvents, reason) ==
    LET normalized == Lower(language)
        resolved == IF LookupGet(e, normalized) # None THEN LookupGet(e, normalized)
                    ELSE IF Includes(e.availableLanguages, language) THEN language
                    ELSE None
        previousLanguage == e.currentLanguage
    IN  IF resolved = None THEN e
        ELSE IF previousLanguage = resolved /\ emitEvents THEN e
        ELSE LET e1 == StorageSet([ e EXCEPT !.currentLanguage = resolved ],
                                  "current_language", resolved)
                 e2 == IF emitEvents
                       THEN [ e1 EXCEPT !.events =
                                Append(@, Ev("languageChanged",
                                             [ language |-> resolved,
                                               previous |-> previousLanguage ])) ]
                       ELSE e1
             IN  EmitContentUpdated(e2, Detail(reason, resolved, FALSE))

\* the candidates of #pickBrowserLanguage, cmscure.js 550-569: each locale
\* lower-cased, then its base code, without repeats
RECURSIVE Candidates(_, _)
Candidates(raw, acc) ==
    IF raw = << >> THEN acc
    ELSE LET lower == Lower(Head(raw))
             a1 == IF Includes(acc, lower) THEN acc ELSE Append(acc, lower)
             base == BaseOf(lower)
             a2 == IF Includes(a1, base) THEN a1 ELSE Append(a1, base)
         IN  Candidates(Tail(raw), a2)

\* #pickBrowserLanguage, cmscure.js 545-578
PickBrowserLanguage(e) ==
    LET raw == e.navigator.languages
                 \o (IF e.navigator.language # None
                     THEN << e.navigator.language >> ELSE << >>)
        candidates == Candidates(raw, << >>)
        hits == { i \in 1..Len(candidates) : LookupHas(e, candidates[i]) }
    IN  IF hits = {} THEN None
        ELSE LookupGet(e, candidates[CHOOSE i \in hits : \A j \in hits : i <= j])

\* mutant: the "en" fallback is taken without asking the lookup, and the
\* first available language is never tried
InitialLanguage_EnUnchecked(e) ==
    LET stored == e.storage.current_language
        default == e.desiredDefaultLanguage
        browserMatch == PickBrowserLanguage(e)
    IN  IF stored # None /\ LookupHas(e, Lower(stored))
        THEN << "stored", LookupGet(e, Lower(stored)) >>
        ELSE IF default # None /\ LookupHas(e, Lower(default))
        THEN << "default", LookupGet(e, Lower(default)) >>
        ELSE IF browserMatch # None THEN << "browser", browserMatch >>
        ELSE << "en", "en" >>

\* mutant: the configured default is tried before the stored language
InitialLanguage_DefaultFirst(e) ==
    LET stored == e.storage.current_language
        default == e.desiredDefaultLanguage
        browserMatch == PickBrowserLanguage(e)
    IN  IF default # None /\ LookupHas(e, Lower(default))
        THEN << "default", LookupGet(e, Lower(default)) >>
        ELSE IF stored # None /\ LookupHas(e, Lower(stored))
        THEN << "stored", LookupGet(e, Lower(stored)) >>
        ELSE IF browserMatch # None THEN << "browser", browserMatch >>
        ELSE IF LookupHas(e, "en") THEN << "en", LookupGet(e, "en") >>
        ELSE << "first", e.availableLanguages[1] >>

\* the priority chain of #resolveInitialLanguage, cmscure.js 509-536: the
\* branch taken and the language it yields
InitialLanguage(e) ==
    LET stored == e.storage.current_language
        default == e.desiredDefaultLanguage
        browserMatch == PickBrowserLanguage(e)
    IN  IF stored # None /\ LookupHas(e, Lower(stored))
        THEN << "stored", LookupGet(e, Lower(stored)) >>
        ELSE IF default # None /\ LookupHas(e, Lower(default))
        THEN << "default", LookupGet(e, Lower(default)) >>
        ELSE IF browserMatch # None THEN << "browser", browserMatch >>
        ELSE IF LookupHas(e, "en") THEN << "en", LookupGet(e, "en") >>
        ELSE IF Len(e.availableLanguages) > 0
        THEN << "first", e.availableLanguages[1] >>
        ELSE << "none", None >>

\* #resolveInitialLanguage, cmscure.js 504-543
ResolveInitialLanguage(e) ==
    IF e.autoLanguageResolved THEN e
    ELSE LET resolved == InitialLanguage(e)[2]
         IN  IF resolved = None THEN e
             ELSE RefreshAutoSubscribedContent(
                    ApplyLanguage([ e EXCEPT !.autoLanguageResolved = TRUE,
                                             !.branch = InitialLanguage(e)[1] ],
                                  resolved, TRUE, "InitialLanguageResolved"),
                    FALSE)

\* mutant: the switch is not written to the durable store
SetLanguageE_NotPersisted(e, language) ==
    LET e1 == ApplyLanguage(e, language, TRUE, "LanguageChanged")
        e2 == [ e1 EXCEPT !.storage.current_language = e.storage.current_language ]
    IN  RefreshAutoSubscribedContent(e2, LookupGet(e, Lower(language)) = e.currentLanguage)

\* setLanguage(language), cmscure.js 79-82.  The syncs it starts are marked
\* when #applyLanguage found the language unchanged (cmscure.js 590-593).
SetLanguageE(e, language) ==
    LET e1 == ApplyLanguage(e, language, TRUE, "LanguageChanged")
    IN  RefreshAutoSubscribedContent(e1, LookupGet(e, Lower(language)) = e.currentLanguage)

----------------------------------------------------------------------------
(* Authentication and the initial sync wave, #authenticateAndSync,         *)
(* cmscure.js 660-724.  `cycle' is where the one running call stands:      *)
(* "idle", "auth" (awaiting the auth response) or "wave" (awaiting         *)
(* Promise.all of the syncs it started).                                   *)

Idle == [ pc |-> "idle", kind |-> "none" ]

\* cmscure.js 661-676: up to the await of the auth request
AuthenticateAndSyncStart(e, kind) ==
    IF e.config = NoConfig THEN e
    ELSE [ e EXCEPT !.cycle = [ pc |-> "auth", kind |-> kind ] ]

\* #initializeSocket, cmscure.js 372-407
InitializeSocket(e) ==
    IF e.config = NoConfig THEN e
    ELSE IF ~ e.config.projectSecret THEN e
    ELSE [ e EXCEPT !.handshakeAcknowledged = FALSE, !.socket = "connecting",
                    !.handshake = "none" ]

RECURSIVE WaveTabs(_, _)
WaveTabs(e, tabs) ==
    IF tabs = << >> THEN e
    ELSE WaveTabs(SyncTabStart(e, Head(tabs), FALSE, "InitialSync", FALSE), Tail(tabs))

RECURSIVE WaveStores(_, _)
WaveStores(e, stores) ==
    IF stores = << >> THEN e
    ELSE WaveStores(SyncStoreStart(e, Head(stores), FALSE, "InitialSync", FALSE),
                    Tail(stores))

\* cmscure.js 688-713: a successful auth response `data', up to the await of
\* Promise.all(syncPromises)
AuthSucceeded(e, data) ==
    LET langs == IF Len(data.availableLanguages) > 0
                 THEN data.availableLanguages ELSE << "en" >>
        e1 == [ e EXCEPT !.authToken = data.token,
                         !.availableLanguages = langs,
                         !.availableLanguageLookup = UpdateAvailableLanguageLookup(langs),
                         !.knownTabs = Range(data.tabs),
                         !.knownStores = Range(data.stores) ]
        e2 == IF e1.authToken # None
              THEN StorageSet(e1, "auth_token", e1.authToken) ELSE e1
        e3 == StorageSet(e2, "available_languages", [ has |-> TRUE, text |-> langs ])
        e4 == ResolveInitialLanguage(e3)
        e5 == WaveTabs(e4, ArrayFrom(e4.knownTabs))
        e6 == WaveStores(e5, ArrayFrom(e5.knownStores))
        e7 == SyncImagesStart(SyncColorsStart(e6, "InitialSync", FALSE),
                              "InitialSync", FALSE)
    IN  [ e7 EXCEPT !.cycle.pc = "wave" ]

\* refresh(), cmscure.js 209-210: what follows the awaited call
AfterCycle(e) ==
    LET e1 == IF e.cycle.kind = "refresh"
              THEN EmitContentUpdated(e, Detail("ManualRefresh", "", FALSE))
              ELSE e
    IN  [ e1 EXCEPT !.cycle = Idle ]

\* cmscure.js 678-686, 721-723: a failed auth response
AuthFailed(e) == AfterCycle(e)

\* cmscure.js 715-720: Promise.all has resolved
WaveSettled(e) ==
    AfterCycle(InitializeSocket(
        EmitContentUpdated(SaveCacheToStorage(e),
                           Detail("InitialSyncComplete", "", FALSE))))

\* mutant: the colors and images flags outlive the session
ConfigureE_KeepFlags(e, cfg) ==
    IF ~ cfg.projectId \/ ~ cfg.apiKey THEN e
    ELSE AuthenticateAndSyncStart(
           EmitContentUpdated(
             [ e EXCEPT !.config = cfg,
                        !.desiredDefaultLanguage = cfg.defaultLanguage,
                        !.autoLanguageResolved = FALSE,
                        !.autoSubscribedTabs = {},
                        !.autoSubscribedStores = {},
                        !.handshakeAcknowledged = FALSE,
                        !.accessed = {} ],
             Detail("CachedDataLoaded", "", FALSE)),
           "configure")

\* configure(config), cmscure.js 45-69
ConfigureE(e, cfg) ==
    IF ~ cfg.projectId \/ ~ cfg.apiKey THEN e
    ELSE AuthenticateAndSyncStart(
           EmitContentUpdated(
             [ e EXCEPT !.config = cfg,
                        !.desiredDefaultLanguage = cfg.defaultLanguage,
                        !.autoLanguageResolved = FALSE,
                        !.autoSubscribedTabs = {},
                        !.autoSubscribedStores = {},
                        !.autoSubscribedColors = FALSE,
                        !.autoSubscribedImages = FALSE,
                        !.handshakeAcknowledged = FALSE,
                        !.accessed = {} ],
             Detail("CachedDataLoaded", "", FALSE)),
           "configure")

\* configure(config) of the TypeScript source, cmscure.ts 101-118: the
\* credentials are not validated
ConfigureTsE(e, cfg) ==
    AuthenticateAndSyncStart(
      EmitContentUpdated(
        [ e EXCEPT !.config = cfg,
                   !.desiredDefaultLanguage = cfg.defaultLanguage,
                   !.autoLanguageResolved = FALSE,
                   !.autoSubscribedTabs = {},
                   !.autoSubscribedStores = {},
                   !.autoSubscribedColors = FALSE,
                   !.autoSubscribedImages = FALSE,
                   !.handshakeAcknowledged = FALSE,
                   !.accessed = {} ],
        Detail("CachedDataLoaded", "", FALSE)),
      "configure")

\* refresh(), cmscure.js 203-209
RefreshE(e) ==
    IF e.config = NoConfig THEN e ELSE AuthenticateAndSyncStart(e, "refresh")

----------------------------------------------------------------------------
(* Responses.  Each handler resumes after its fetch: on a 2xx response it  *)
(* writes the cache, saves, notifies; its finally block clears the marker. *)

Put(fn, k, v) == [ x \in DOMAIN fn \cup { k } |-> IF x = k THEN v ELSE fn[x] ]

\* (data.keys || []).forEach(item => { keyMap[item.key] = item.values; })
RECURSIVE KeyMapOf(_, _)
KeyMapOf(items, keyMap) ==
    IF items = << >> THEN keyMap
    ELSE KeyMapOf(Tail(items), Put(keyMap, Head(items).key, Head(items).values))

\* mutant: the new keys are merged into the cached key map
TabSlot_Merge(e, tab, items) ==
    Put(e.cache, tab,
        KeyMapOf(items, IF tab \in DOMAIN e.cache THEN e.cache[tab] ELSE EmptyFn))

\* the cache slot a successful tab sync writes, cmscure.js 753-756
TabSlot(e, tab, items) == Put(e.cache, tab, KeyMapOf(items, EmptyFn))

Settled(e, f) == [ e EXCEPT !.fetches = @ (-) SetToBag({ f }) ]

\* mutant: a failed tab sync empties the tab's cache slot
SyncTabSettle_ErrorClears(e, f, outcome, items) ==
    LET e0 == Settled(e, f)
        e1 == [ e0 EXCEPT !.cache = TabSlot(e0, f.name, IF outcome = "ok" THEN items ELSE << >>),
                          !.knownTabs = @ \cup { f.name } ]
        e2 == EmitContentUpdated(SaveCacheToStorage(e1),
                                 Detail(f.reason, f.name, f.noop))
        e4 == IF outcome \in { "ok", "error" } THEN e2 ELSE e0
    IN  [ e4 EXCEPT !.syncingTabs = @ \ { f.name } ]

\* #syncTab, cmscure.js 747-772; outcome is "ok", "404" or "error"
SyncTabSettle(e, f, outcome, items) ==
    LET tab == f.name
        e0 == Settled(e, f)
        e1 == [ e0 EXCEPT !.cache = TabSlot(e0, tab, items),
                          !.knownTabs = @ \cup { tab } ]
        e2 == EmitContentUpdated(SaveCacheToStorage(e1),
                                 Detail(f.reason, tab, f.noop))
        e3 == [ e2 EXCEPT !.events =
                  Append(@, Ev("translationsUpdated", Detail(f.reason, tab, f.noop))) ]
        e4 == IF outcome = "ok" THEN e3 ELSE e0
    IN  [ e4 EXCEPT !.syncingTabs = @ \ { tab } ]

\* (data || []).forEach(item => { map[item.key] = { [prop]: item[field] }; })
RECURSIVE SlotMapOf(_, _, _)
SlotMapOf(items, prop, map) ==
    IF items = << >> THEN map
    ELSE SlotMapOf(Tail(items), prop,
                   Put(map, Head(items).key,
                       Obj([ q \in { prop } |-> Head(items).value ])))

\* mutant: a colors sync leaves the durable store as it was
SyncColorsSettle_NoSave(e, f, outcome, items) ==
    LET e0 == Settled(e, f)
        e1 == [ e0 EXCEPT !.cache = Put(@, ColorsScope, SlotMapOf(items, "hex", EmptyFn)),
                          !.autoSubscribedColors = TRUE ]
        e2 == EmitContentUpdated(e1, Detail(f.reason, ColorsScope, f.noop))
        e3 == [ e2 EXCEPT !.events =
                  Append(@, Ev("colorsUpdated", Detail(f.reason, ColorsScope, f.noop))) ]
        e4 == IF outcome = "ok" THEN e3 ELSE e0
    IN  [ e4 EXCEPT !.colorsSyncInFlight = FALSE ]

\* #syncColors, cmscure.js 841-865
SyncColorsSettle(e, f, outcome, items) ==
    LET e0 == Settled(e, f)
        e1 == [ e0 EXCEPT !.cache = Put(@, ColorsScope, SlotMapOf(items, "hex", EmptyFn)),
                          !.autoSubscribedColors = TRUE ]
        e2 == EmitContentUpdated(SaveCacheToStorage(e1),
                                 Detail(f.reason, ColorsScope, f.noop))
        e3 == [ e2 EXCEPT !.events =
                  Append(@, Ev("colorsUpdated", Detail(f.reason, ColorsScope, f.noop))) ]
        e4 == IF outcome = "ok" THEN e3 ELSE e0
    IN  [ e4 EXCEPT !.colorsSyncInFlight = FALSE ]

\* #syncImages, cmscure.js 794-819
SyncImagesSettle(e, f, outcome, items) ==
    LET e0 == Settled(e, f)
        e1 == [ e0 EXCEPT !.cache = Put(@, ImagesScope, SlotMapOf(items, "url", EmptyFn)),
                          !.autoSubscribedImages = TRUE ]
        e2 == EmitContentUpdated(SaveCacheToStorage(e1),
                                 Detail(f.reason, ImagesScope, f.noop))
        e3 == [ e2 EXCEPT !.events =
                  Append(@, Ev("imagesUpdated", Detail(f.reason, ImagesScope, f.noop))) ]
        e4 == IF outcome = "ok" THEN e3 ELSE e0
    IN  [ e4 EXCEPT !.imagesSyncInFlight = FALSE ]

\* #syncStore, cmscure.js 887-904
SyncStoreSettle(e, f, outcome, items) ==
    LET store == f.name
        e0 == Settled(e, f)
        gen == IF store \in DOMAIN e0.dataStoreCache
               THEN NextGen(e0.dataStoreCache[store].gen) ELSE "a"
        e1 == [ e0 EXCEPT !.dataStoreCache = Put(@, store, StoreArray(items, gen)),
                          !.knownStores = @ \cup { store },
                          !.autoSubscribedStores = @ \cup { store } ]
        e2 == EmitContentUpdated(SaveCacheToStorage(e1),
                                 Detail(f.reason, store, f.noop))
        e3 == IF outcome = "ok" THEN e2 ELSE e0
    IN  [ e3 EXCEPT !.syncingStores = @ \ { store } ]

----------------------------------------------------------------------------
(* The realtime socket, cmscure.js 409-502.                                *)

RECURSIVE ForceTabs(_, _)
ForceTabs(e, tabs) ==
    IF tabs = << >> THEN e
    ELSE ForceTabs(SyncTabStart(e, Head(tabs), TRUE, "RealtimeUpdate", FALSE),
                   Tail(tabs))

RECURSIVE ForceStores(_, _)
ForceStores(e, stores) ==
    IF stores = << >> THEN e
    ELSE ForceStores(SyncStoreStart(e, Head(stores), TRUE, "RealtimeUpdate", FALSE),
                     Tail(stores))

\* mutant: "__ALL__" re-syncs every tab the server listed
HandleSocketTranslationUpdate_KnownTabs(e, screenName) ==
    IF screenName = AllScope
    THEN LET e1 == ForceTabs(e, ArrayFrom(e.autoSubscribedTabs \cup e.knownTabs))
             e2 == IF e1.autoSubscribedColors
                   THEN SyncColorsStart(e1, "RealtimeUpdate", FALSE) ELSE e1
             e3 == IF e2.autoSubscribedImages
                   THEN SyncImagesStart(e2, "RealtimeUpdate", FALSE) ELSE e2
         IN  ForceStores(e3, ArrayFrom(e3.autoSubscribedStores))
    ELSE e

\* #handleSocketTranslationUpdate, cmscure.js 468-502; a payload without a
\* string screenName has screenName = ""
HandleSocketTranslationUpdate(e, screenName) ==
    IF screenName = "" THEN e
    ELSE IF screenName = AllScope
    THEN LET e1 == ForceTabs(e, ArrayFrom(e.autoSubscribedTabs))
             e2 == IF e1.autoSubscribedColors
                   THEN SyncColorsStart(e1, "RealtimeUpdate", FALSE) ELSE e1
             e3 == IF e2.autoSubscribedImages
                   THEN SyncImagesStart(e2, "RealtimeUpdate", FALSE) ELSE e2
         IN  ForceStores(e3, ArrayFrom(e3.autoSubscribedStores))
    ELSE IF screenName = ColorsScope THEN SyncColorsStart(e, "RealtimeUpdate", FALSE)
    ELSE IF screenName = ImagesScope THEN SyncImagesStart(e, "RealtimeUpdate", FALSE)
    ELSE IF screenName \in e.autoSubscribedTabs \/ screenName \in e.knownTabs
    THEN SyncTabStart(e, screenName, TRUE, "RealtimeUpdate", FALSE)
    ELSE e

\* socket.on('dataStoreUpdated'), cmscure.js 442-448
HandleDataStoreUpdated(e, storeApiIdentifier) ==
    IF storeApiIdentifier = "" THEN e
    ELSE SyncStoreStart(e, storeApiIdentifier, TRUE, "RealtimeUpdate", FALSE)

\* socket.on('imagesUpdated'), cmscure.js 450-452
HandleImagesUpdated(e) == SyncImagesStart(e, "RealtimeUpdate", FALSE)

\* mutant: the acknowledgement sets the flag and re-syncs nothing
HandleHandshakeAck_NoRefresh(e) == [ e EXCEPT !.handshakeAcknowledged = TRUE ]

\* socket.on('handshake_ack'), cmscure.js 428-432
HandleHandshakeAck(e) ==
    RefreshAutoSubscribedContent([ e EXCEPT !.handshakeAcknowledged = TRUE ], FALSE)

\* mutant: a disconnect leaves the handshake flag as it is
HandleDisconnect_KeepFlag(e) ==
    [ e EXCEPT !.socket = "connecting", !.handshake = "none" ]

\* socket.on('disconnect'), cmscure.js 415-418; socket.io reconnects
HandleDisconnect(e) ==
    [ e EXCEPT !.handshakeAcknowledged = FALSE, !.socket = "connecting",
               !.handshake = "none" ]

\* socket.on('connect'), cmscure.js 410-413, and #performHandshake up to its
\* first await, cmscure.js 455-461 and 343-353: without a project secret
\* building the payload fails at once
HandleConnect(e) ==
    [ e EXCEPT !.socket = "connected",
               !.handshake = IF e.config # NoConfig /\ e.config.projectSecret
                             THEN "pending" ELSE "failed" ]

\* #performHandshake after its await, cmscure.js 461-465: the handshake
\* message is sent when the payload could be built; building it fails
\* without Web Crypto (cmscure.js 347-349)
PerformHandshake(e, crypto) ==
    IF crypto THEN [ e EXCEPT !.handshake = "sent" ]
    ELSE [ e EXCEPT !.handshake = "failed" ]

----------------------------------------------------------------------------
(* Construction and the state of the model.                                *)

\* the field initialisers of the class, cmscure.js 6-30, on a host with the
\* durable store `st' and the locale preferences `nav'
FieldInitialisers(st, nav) ==
    [ config |-> NoConfig, authToken |-> None,
      availableLanguages |-> << "en" >>,
      availableLanguageLookup |-> [ c \in { "en" } |-> "en" ],
      currentLanguage |-> "en", cache |-> EmptyFn,
      dataStoreCache |-> EmptyFn, socket |-> "none",
      handshakeAcknowledged |-> FALSE,
      knownTabs |-> {}, knownStores |-> {},
      autoSubscribedTabs |-> {}, autoSubscribedStores |-> {},
      autoSubscribedColors |-> FALSE, autoSubscribedImages |-> FALSE,
      syncingTabs |-> {}, syncingStores |-> {},
      colorsSyncInFlight |-> FALSE, imagesSyncInFlight |-> FALSE,
      autoLanguageResolved |-> FALSE, desiredDefaultLanguage |-> None,
      bindingChannels |-> << >>,
      storage |-> st, navigator |-> nav,
      fetches |-> EmptyBag, handshake |-> "none", cycle |-> Idle,
      accessed |-> {},
      ret |-> VUndef, events |-> << >>, calls |-> << >>, started |-> << >>,
      branch |-> "none" ]

\* new CMSCureSDK(), cmscure.js 32-43
Construct(st, nav) == LoadState(FieldInitialisers(st, nav))

\* What the queries answer, for every key: the results a caller can see.
QuerySnapshot(e) ==
    [ language |-> e.currentLanguage,
      translation |-> [ t \in Tabs |-> [ k \in Keys |-> TranslationE(e, k, t, VUndef).ret ] ],
      color |-> [ k \in ColorKeys |-> ColorE(e, k, VUndef).ret ],
      image |-> [ k \in ImageKeys |-> ImageE(e, k, VUndef).ret ],
      dataStore |-> [ st \in Stores |-> DataStoreE(e, st, VUndef).ret[2] ] ]

Step(e, op, arg) ==
    [ op |-> op, arg |-> arg, ret |-> e.ret, events |-> e.events,
      calls |-> e.calls, started |-> e.started, branch |-> e.branch ]

\* the positions of the requests for a scope among those a step started
StartedFor(step, kind, name) ==
    { i \in 1..Len(step.started) :
        step.started[i].kind = kind /\ step.started[i].name = name }

\* the next state holds exactly the fields of e
Engine(e) ==
    /\ config' = e.config
    /\ authToken' = e.authToken
    /\ availableLanguages' = e.availableLanguages
    /\ availableLanguageLookup' = e.availableLanguageLookup
    /\ currentLanguage' = e.currentLanguage
    /\ cache' = e.cache
    /\ dataStoreCache' = e.dataStoreCache
    /\ socket' = e.socket
    /\ handshakeAcknowledged' = e.handshakeAcknowledged
    /\ knownTabs' = e.knownTabs
    /\ knownStores' = e.knownStores
    /\ autoSubscribedTabs' = e.autoSubscribedTabs
    /\ autoSubscribedStores' = e.autoSubscribedStores
    /\ autoSubscribedColors' = e.autoSubscribedColors
    /\ autoSubscribedImages' = e.autoSubscribedImages
    /\ syncingTabs' = e.syncingTabs
    /\ syncingStores' = e.syncingStores
    /\ colorsSyncInFlight' = e.colorsSyncInFlight
    /\ imagesSyncInFlight' = e.imagesSyncInFlight
    /\ autoLanguageResolved' = e.autoLanguageResolved
    /\ desiredDefaultLanguage' = e.desiredDefaultLanguage
    /\ bindingChannels' = e.bindingChannels
    /\ storage' = e.storage
    /\ navigator' = e.navigator
    /\ fetches' = e.fetches
    /\ handshake' = e.handshake
    /\ cycle' = e.cycle
    /\ accessed' = e.accessed

\* the state holds exactly the fields of e
IsEngine(e) ==
    /\ config = e.config
    /\ authToken = e.authToken
    /\ availableLanguages = e.availableLanguages
    /\ availableLanguageLookup = e.availableLanguageLookup
    /\ currentLanguage = e.currentLanguage
    /\ cache = e.cache
    /\ dataStoreCache = e.dataStoreCache
    /\ socket = e.socket
    /\ handshakeAcknowledged = e.handshakeAcknowledged
    /\ knownTabs = e.knownTabs
    /\ knownStores = e.knownStores
    /\ autoSubscribedTabs = e.autoSubscribedTabs
    /\ autoSubscribedStores = e.autoSubscribedStores
    /\ autoSubscribedColors = e.autoSubscribedColors
    /\ autoSubscribedImages = e.autoSubscribedImages
    /\ syncingTabs = e.syncingTabs
    /\ syncingStores = e.syncingStores
    /\ colorsSyncInFlight = e.colorsSyncInFlight
    /\ imagesSyncInFlight = e.imagesSyncInFlight
    /\ autoLanguageResolved = e.autoLanguageResolved
    /\ desiredDefaultLanguage = e.desiredDefaultLanguage
    /\ bindingChannels = e.bindingChannels
    /\ storage = e.storage
    /\ navigator = e.navigator
    /\ fetches = e.fetches
    /\ handshake = e.handshake
    /\ cycle = e.cycle
    /\ accessed = e.accessed

\* One step of the event loop: the handler's result becomes the state.
Commit(e, op, arg) ==
    /\ Bounded(e)
    /\ Engine(e)
    /\ last' = Step(e, op, arg)
    /\ UNCHANGED handles

NoHandles == [ h \in {} |-> "live" ]

InitWith(navs) ==
    \E nav \in navs :
        /\ IsEngine(Construct(EmptyStorage, nav))
        /\ handles = NoHandles
        /\ last = Step(Construct(EmptyStorage, nav), "construct", << >>)

----------------------------------------------------------------------------
(* Actions: the calls of the application, the responses of the server and  *)
(* the events of the socket.                                               *)

\* The application awaits configure() and refresh(): one call at a time.
Configure(cfg) ==
    /\ cycle.pc = "idle"
    /\ Commit(ConfigureE(Cur, cfg), "configure", << cfg >>)

Refresh ==
    /\ cycle.pc = "idle"
    /\ Commit(RefreshE(Cur), "refresh", << >>)

AuthOk(data) ==
    /\ cycle.pc = "auth"
    /\ Commit(AuthSucceeded(Cur, data), "authOk", << data >>)

AuthError ==
    /\ cycle.pc = "auth"
    /\ Commit(AuthFailed(Cur), "authError", << >>)

\* Promise.all(syncPromises) resolves once every sync the wave started has
\* settled; a sync that returned at once (already in flight) is not awaited.
WaveDone ==
    /\ cycle.pc = "wave"
    /\ \A f \in BagToSet(fetches) : f.reason # "InitialSync"
    /\ Commit(WaveSettled(Cur), "waveDone", << >>)

SetLanguage(language) ==
    Commit([ SetLanguageE(Cur, language) EXCEPT !.ret = VUndef ],
           "setLanguage", << language >>)

Translation(key, tab) ==
    Commit(TranslationE(Cur, key, tab, VUndef), "translation", << key, tab >>)

Color(key) == Commit(ColorE(Cur, key, VUndef), "color", << key >>)

Image(key) == Commit(ImageE(Cur, key, VUndef), "image", << key >>)

DataStore(apiIdentifier) ==
    Commit(DataStoreE(Cur, apiIdentifier, VUndef), "dataStore", << apiIdentifier >>)

Observe(reference, listener) ==
    /\ Trim(reference) # << >>
    /\ LET e == ObserveE(Cur, reference, listener, VUndef)
       IN  /\ Bounded(e)
           /\ Engine(e)
           /\ last' = Step(e, "observe", << Trim(reference), listener >>)
    /\ handles' = Put(handles, << Trim(reference), listener >>, "live")

\* the application calls an unsubscribe function it holds
Unsubscribe(normalized, listener) ==
    /\ << normalized, listener >> \in DOMAIN handles
    /\ LET e == UnsubscribeE(Cur, normalized, listener)
       IN  /\ Engine(e)
           /\ last' = Step(e, "unsubscribe", << normalized, listener >>)
    /\ handles' = Put(handles, << normalized, listener >>, "called")

\* Object.keys(this.#cache[tab] || {})
CachedKeys(e, tab) == IF tab \in DOMAIN e.cache THEN DOMAIN e.cache[tab] ELSE {}

TabResponse(outcome, items) ==
    \E f \in BagToSet(fetches) :
        /\ f.kind = "tab"
        /\ Commit([ SyncTabSettle(Cur, f, outcome, items) EXCEPT !.ret = VUndef ],
                  "syncTab", << f, outcome, items, CachedKeys(Cur, f.name) >>)

ColorsResponse(outcome, items) ==
    \E f \in BagToSet(fetches) :
        /\ f.kind = "colors"
        /\ Commit([ SyncColorsSettle(Cur, f, outcome, items) EXCEPT !.ret = VUndef ],
                  "syncColors", << f, outcome, items >>)

ImagesResponse(outcome, items) ==
    \E f \in BagToSet(fetches) :
        /\ f.kind = "images"
        /\ Commit([ SyncImagesSettle(Cur, f, outcome, items) EXCEPT !.ret = VUndef ],
                  "syncImages", << f, outcome, items >>)

StoreResponse(outcome, items) ==
    \E f \in BagToSet(fetches) :
        /\ f.kind = "store"
        /\ Commit([ SyncStoreSettle(Cur, f, outcome, items) EXCEPT !.ret = VUndef ],
                  "syncStore", << f, outcome, items >>)

SocketConnect ==
    /\ socket = "connecting"
    /\ Commit(HandleConnect(Cur), "connect", << >>)

\* the step records whether the handshake was acknowledged before
SocketDisconnect ==
    /\ socket = "connected"
    /\ Commit(HandleDisconnect(Cur), "disconnect", << handshakeAcknowledged >>)

HandshakeSent ==
    /\ socket = "connected" /\ handshake = "pending"
    /\ Commit(PerformHandshake(Cur, TRUE), "handshake", << TRUE >>)

\* the host has no Web Crypto
HandshakeFailed ==
    /\ socket = "connected" /\ handshake = "pending"
    /\ Commit(PerformHandshake(Cur, FALSE), "handshake", << FALSE >>)

\* the server acknowledges a handshake message it has received, once
HandshakeAck ==
    /\ socket = "connected" /\ handshake = "sent"
    /\ Commit([ HandleHandshakeAck(Cur) EXCEPT !.handshake = "acked" ],
              "handshake_ack", << >>)

TranslationsUpdated(screenName) ==
    /\ socket = "connected"
    /\ Commit(HandleSocketTranslationUpdate(Cur, screenName),
              "translationsUpdated", << screenName >>)

DataStoreUpdated(storeApiIdentifier) ==
    /\ socket = "connected"
    /\ Commit(HandleDataStoreUpdated(Cur, storeApiIdentifier),
              "dataStoreUpdated", << storeApiIdentifier >>)

ImagesUpdated ==
    /\ socket = "connected"
    /\ Commit(HandleImagesUpdated(Cur), "imagesUpdated", << >>)

\* The page is loaded again: a new engine is constructed on the durable
\* store; requests and handles of the old page are gone.  The step records
\* what the queries answered just before.
Reload(nav) ==
    /\ Engine(Construct(storage, nav))
    /\ handles' = NoHandles
    /\ last' = Step(Construct(storage, nav), "reload", << QuerySnapshot(Cur) >>)

----------------------------------------------------------------------------
(* Inputs.                                                                 *)

Cfg(defaultLanguage, projectSecret) ==
    [ projectId |-> TRUE, apiKey |-> TRUE, defaultLanguage |-> defaultLanguage,
      projectSecret |-> projectSecret ]

AuthData(token, languages, tabs, stores) ==
    [ token |-> token, availableLanguages |-> languages, tabs |-> tabs,
      stores |-> stores ]

Item(key, values) == [ key |-> key, values |-> values ]
Slot(key, value) == [ key |-> key, value |-> value ]

HiSalut == Obj([ l \in { "en", "fr" } |-> IF l = "en" THEN "Hi" ELSE "Salut" ])
GoVa == Obj([ l \in { "en", "fr" } |-> IF l = "en" THEN "Go" ELSE "Va" ])

\* response bodies of a tab: data.keys
TabItems ==
    { << Item("title", HiSalut) >>,
      << Item("cta", GoVa) >>,
      << Item("title", GoVa), Item("title", HiSalut), Item("cta", UndefinedObj) >> }

ColorItems == { << Slot("primary", "#fff") >>, << >> }
ImageItems == { << Slot("logo", "/logo.png") >>, << >> }
StoreItems == { << "item1" >>, << "item2", "item1" >> }

NoNavigator == [ languages |-> << >>, language |-> None ]

----------------------------------------------------------------------------
(* Spec: tab synchronisation.  A project with a realtime secret; the       *)
(* server lists the tab "home" or no tab at all, and the application       *)
(* reads "home".                                                           *)

TabAuth(tabs) == AuthData("tok1", << "en", "fr" >>, tabs, << >>)

Init == InitWith({ NoNavigator })

Next ==
    \/ Configure(Cfg(None, TRUE))
    \/ \E tabs \in { << "home" >>, << >> } : AuthOk(TabAuth(tabs))
    \/ WaveDone
    \/ Translation("title", "home")
    \/ \E o \in { "ok", "404", "error" }, items \in TabItems : TabResponse(o, items)
    \/ ColorsResponse("ok", << Slot("primary", "#fff") >>)
    \/ ImagesResponse("ok", << Slot("logo", "/logo.png") >>)
    \/ SocketConnect
    \/ TranslationsUpdated("home")

Spec == Init /\ [][Next]_vars

----------------------------------------------------------------------------
(* C1.  In a configured session, a call translation(k, T) for a tab T with *)
(* no cached content returns the fallback "[T:k]" and leaves exactly one   *)
(* fetch for T outstanding, however many such calls were made.             *)

Uncached(tab) == tab \notin DOMAIN cache \/ DOMAIN cache[tab] = {}

C1_FallbackAndOneFetch ==
    (last.op = "translation" /\ config # NoConfig /\ Uncached(last.arg[2])) =>
        /\ last.ret = VStr(Fallback(last.arg[2], last.arg[1]))
        /\ Outstanding(fetches, "tab", last.arg[2]) = 1

\* the first fetch for T, started by the first call, has not settled, and
\* the call starts a second one
C1_SecondFetchStarted ==
    /\ last.op = "translation" /\ config # NoConfig /\ Uncached(last.arg[2])
    /\ \E f \in BagToSet(fetches) :
          f.kind = "tab" /\ f.name = last.arg[2] /\ f.reason = "AutoSubscribe"
    /\ \E i \in StartedFor(last, "tab", last.arg[2]) :
          last.started[i].reason = "CacheMiss"
    /\ Outstanding(fetches, "tab", last.arg[2]) = 2

----------------------------------------------------------------------------
(* C2.  After a tab sync completes successfully, forced or not, the cached *)
(* key map of the tab is exactly the key map of the response payload: its  *)
(* keys are the payload's keys, each with the payload's (last) values, and *)
(* a key cached before that the payload lacks is gone.                     *)

PayloadKeys(items) == { items[i].key : i \in 1..Len(items) }

PayloadValues(items, key) ==
    items[CHOOSE i \in 1..Len(items) :
            /\ items[i].key = key
            /\ \A j \in 1..Len(items) : items[j].key = key => j <= i].values

C2_TabReplaced ==
    (last.op = "syncTab" /\ last.arg[2] = "ok") =>
        LET tab == last.arg[1].name
            items == last.arg[3]
        IN  /\ tab \in DOMAIN cache
            /\ DOMAIN cache[tab] = PayloadKeys(items)
            /\ \A k \in PayloadKeys(items) : cache[tab][k] = PayloadValues(items, k)
            /\ \A k \in last.arg[4] \ PayloadKeys(items) : k \notin DOMAIN cache[tab]

\* a forced re-sync whose payload lacks a key that was cached
C2_Witness ==
    /\ last.op = "syncTab" /\ last.arg[2] = "ok" /\ last.arg[1].force
    /\ \E k \in last.arg[4] : k \notin DOMAIN cache[last.arg[1].name]

----------------------------------------------------------------------------
(* SpecLang: language resolution.  A project without a realtime secret;    *)
(* the server's language list varies from one authentication to the next;  *)
(* the host may prefer Canadian French; the application switches language, *)
(* refreshes, and reloads the page.                                        *)

FrCaNavigator == [ languages |-> << "fr-CA" >>, language |-> "fr-CA" ]

LanguageLists == { << "en", "fr" >>, << "FR", "de" >>, << "de" >>, << >> }

LangAuth(languages) == AuthData("tok1", languages, << >>, << >>)

InitLang == InitWith({ NoNavigator, FrCaNavigator })

NextLang ==
    \/ \E d \in { None, "FR" } : Configure(Cfg(d, FALSE))
    \/ \E l \in LanguageLists : AuthOk(LangAuth(l))
    \/ AuthError
    \/ WaveDone
    \/ Refresh
    \/ \E l \in { "fr", "xx" } : SetLanguage(l)
    \/ ColorsResponse("error", << >>)
    \/ ImagesResponse("error", << >>)
    \/ Reload(navigator)

SpecLang == InitLang /\ [][NextLang]_vars

----------------------------------------------------------------------------
(* SpecSwitch: language switches over cached content.  The server offers   *)
(* "en" and "fr"; the application reads the tab "home" and switches        *)
(* between the languages, also to the one that is current and to one the   *)
(* server does not offer.                                                  *)

InitSwitch == InitWith({ NoNavigator })

NextSwitch ==
    \/ Configure(Cfg(None, FALSE))
    \/ AuthOk(LangAuth(<< "en", "fr" >>))
    \/ WaveDone
    \/ \E l \in { "en", "fr", "FR", "xx" } : SetLanguage(l)
    \/ Translation("title", "home")
    \/ \E items \in { << Item("title", HiSalut) >>, << Item("cta", GoVa) >> } :
          TabResponse("ok", items)
    \/ ColorsResponse("ok", << Slot("primary", "#fff") >>)
    \/ ImagesResponse("error", << >>)

SpecSwitch == InitSwitch /\ [][NextSwitch]_vars

----------------------------------------------------------------------------
(* C3.  A setLanguage(L) call made while L is the current language causes  *)
(* no notification: no event of the engine is due to it, neither in the    *)
(* call itself nor when a sync it started completes.                       *)

ContentEvents ==
    { "contentUpdated", "translationsUpdated", "colorsUpdated", "imagesUpdated" }

C3_UnchangedLanguageIsSilent ==
    \A i \in 1..Len(last.events) :
        last.events[i].name \in ContentEvents => ~ last.events[i].detail.noop

----------------------------------------------------------------------------
(* C6.  When an authentication response resolves the initial language, by  *)
(* whichever branch of the priority chain, the current language is then a  *)
(* member of availableLanguages.                                           *)

C6_ResolvedIsAvailable ==
    (last.op = "authOk" /\ last.branch # "none") =>
        Includes(availableLanguages, currentLanguage)

\* the stored preference "fr" resolves to the server's spelling "FR"
C6_Witness ==
    /\ last.op = "authOk" /\ last.branch = "stored"
    /\ currentLanguage = "FR"
    /\ Includes(availableLanguages, "FR")

----------------------------------------------------------------------------
(* C7.  Once a language has been resolved, in this page load or in an      *)
(* earlier one whose state was loaded from the durable store, the current  *)
(* language is a member of availableLanguages in every state.              *)

C7_CurrentLanguageAvailable ==
    (autoLanguageResolved \/ storage.current_language # None) =>
        Includes(availableLanguages, currentLanguage)

----------------------------------------------------------------------------
(* C9.  In a configured session, a setLanguage call that changes the       *)
(* language leaves the cache as it is, so translation(k, T) returns at     *)
(* once the cached value of the new language; the call starts one          *)
(* non-forced fetch for T exactly when T is in the subscription registry   *)
(* and no fetch for T is in flight, and none otherwise.                    *)

LanguageChanged(step) ==
    \E i \in 1..Len(step.events) : step.events[i].name = "languageChanged"

\* the claim as the spec states it: no fetch for a cached tab
C9_SwitchStartsNoFetch ==
    (last.op = "setLanguage" /\ LanguageChanged(last) /\ config # NoConfig) =>
        \A T \in Tabs :
            (T \in DOMAIN cache /\ DOMAIN cache[T] # {}) =>
                StartedFor(last, "tab", T) = {}

C9_SwitchReadsCacheAndResyncsRegistry ==
    [][ (last'.op = "setLanguage" /\ LanguageChanged(last') /\ config # NoConfig) =>
          /\ cache' = cache
          /\ \A T \in Tabs :
               /\ \A k \in Keys :
                    (/\ T \in DOMAIN cache /\ k \in DOMAIN cache[T]
                     /\ Prop(cache[T][k], currentLanguage') # None) =>
                        TranslationE(Cur', k, T, VUndef).ret =
                            VStr(Prop(cache[T][k], currentLanguage'))
               /\ Cardinality(StartedFor(last', "tab", T)) =
                    IF T \in autoSubscribedTabs /\ T \notin syncingTabs
                    THEN 1 ELSE 0
               /\ \A i \in StartedFor(last', "tab", T) : ~ last'.started[i].force
      ]_vars

\* the switch to "fr" with "home" cached and subscribed: "Salut" is returned
\* and a fetch for "home" has been started
C9_Witness ==
    /\ last.op = "setLanguage" /\ LanguageChanged(last)
    /\ currentLanguage = "fr"
    /\ TranslationE(Cur, "title", "home", VUndef).ret = VStr("Salut")
    /\ StartedFor(last, "tab", "home") # {}

----------------------------------------------------------------------------
(* SpecBind: live bindings.  The application observes a translation and    *)
(* the session token with two listeners, and calls the unsubscribe         *)
(* functions it holds; content and language change underneath.             *)

HomeTitle == << "home", ":", "title" >>
MetaToken == << "meta", ":", "auth_token" >>

BindAuth(token) == AuthData(token, << "en", "fr" >>, << >>, << >>)

InitBind == InitWith({ NoNavigator })

NextBind ==
    \/ Configure(Cfg(None, FALSE))
    \/ AuthOk(BindAuth("tok1"))
    \/ WaveDone
    \/ \E f \in Listeners : Observe(MetaToken, f)
    \/ Observe(HomeTitle, "f1")
    \/ \E h \in DOMAIN handles : Unsubscribe(h[1], h[2])
    \/ SetLanguage("fr")
    \/ TabResponse("ok", << Item("title", HiSalut) >>)
    \/ ColorsResponse("error", << >>)
    \/ ImagesResponse("error", << >>)

SpecBind == InitBind /\ [][NextBind]_vars

----------------------------------------------------------------------------
(* C4.  observe(ref, fn) invokes fn before it returns with the value that  *)
(* resolve(ref) yields at that moment, whether the call creates the        *)
(* binding channel or joins one that has listeners.                        *)

C4_InitialValueIsResolved ==
    last.op = "observe" =>
        \E i \in 1..Len(last.calls) :
            /\ last.calls[i].reference = last.arg[1]
            /\ last.calls[i].listener = last.arg[2]
            /\ last.calls[i].value = ResolveE(Cur, last.arg[1], VUndef).ret

----------------------------------------------------------------------------
(* C5.  A listener whose unsubscribe function has been called (and that    *)
(* has not been registered again since) is invoked by no later step,       *)
(* whatever syncs, authentications and language changes follow.            *)

C5_NoCallAfterUnsubscribe ==
    \A i \in 1..Len(last.calls) :
        LET h == << last.calls[i].reference, last.calls[i].listener >>
        IN  h \in DOMAIN handles => handles[h] # "called"

\* a change is told to the listener that stayed on the reference, after the
\* other listener of the reference has unsubscribed
C5_Witness ==
    \E h \in DOMAIN handles :
        /\ handles[h] = "called"
        /\ \E i \in 1..Len(last.calls) :
              /\ last.calls[i].reference = h[1]
              /\ last.calls[i].listener # h[2]
              /\ last.calls[i].reason # "Initial"

----------------------------------------------------------------------------
(* SpecStore: the durable store.  The server lists the tab "home" and the  *)
(* store "products"; the project's default language is "fr"; responses     *)
(* carry varied payloads; the application reloads the page at any moment.  *)

StoreAuth == AuthData("tok1", << "en", "fr" >>, << "home" >>, << "products" >>)

InitStore == InitWith({ NoNavigator })

NextStore ==
    \/ Configure(Cfg("fr", FALSE))
    \/ AuthOk(StoreAuth)
    \/ WaveDone
    \/ \E items \in TabItems : TabResponse("ok", items)
    \/ TabResponse("error", << >>)
    \/ \E items \in ColorItems : ColorsResponse("ok", items)
    \/ \E items \in ImageItems : ImagesResponse("ok", items)
    \/ \E items \in StoreItems : StoreResponse("ok", items)
    \/ Reload(navigator)

SpecStore == InitStore /\ [][NextStore]_vars

----------------------------------------------------------------------------
(* C8.  An engine constructed on the durable store answers every           *)
(* translation, color, image and dataStore query, and reports the current  *)
(* language, as the engine that wrote the store did just before, and it    *)
(* does so without a request to the server.                                *)

C8_ReloadRoundTrip ==
    last.op = "reload" =>
        /\ QuerySnapshot(Cur) = last.arg[1]
        /\ fetches = EmptyBag
        /\ \A t \in Tabs, k \in Keys : TranslationE(Cur, k, t, VUndef).started = << >>
        /\ \A k \in ColorKeys : ColorE(Cur, k, VUndef).started = << >>
        /\ \A k \in ImageKeys : ImageE(Cur, k, VUndef).started = << >>
        /\ \A st \in Stores : DataStoreE(Cur, st, VUndef).started = << >>

\* a reload after content of every kind was synced and "fr" was resolved
C8_Witness ==
    /\ last.op = "reload"
    /\ last.arg[1].language = "fr"
    /\ last.arg[1].translation["home"]["title"] = VStr("Salut")
    /\ last.arg[1].translation["home"]["cta"] = VStr("[home:cta]")
    /\ last.arg[1].color["primary"] = VStr("#fff")
    /\ last.arg[1].image["logo"] = VStr("/logo.png")
    /\ last.arg[1].dataStore["products"] = << "item2", "item1" >>

----------------------------------------------------------------------------
(* SpecLive: realtime "everything changed" notifications.  A project with  *)
(* a realtime secret; the server lists the tab "home" and the store        *)
(* "products"; the application reads one translation of "home", and        *)
(* never the store, a color or an image.                                   *)

LiveAuth == AuthData("tok1", << "en", "fr" >>, << "home" >>, << "products" >>)

InitLive == InitWith({ NoNavigator })

NextLive ==
    \/ Configure(Cfg(None, TRUE))
    \/ AuthOk(LiveAuth)
    \/ WaveDone
    \/ Translation("title", "home")
    \/ TabResponse("ok", << Item("title", HiSalut) >>)
    \/ ColorsResponse("error", << >>)
    \/ ImagesResponse("error", << >>)
    \/ StoreResponse("ok", << "item1" >>)
    \/ SocketConnect
    \/ TranslationsUpdated(AllScope)

SpecLive == InitLive /\ [][NextLive]_vars

----------------------------------------------------------------------------
(* C10.  An "__ALL__" notification re-fetches exactly the subscription     *)
(* registry: one forced fetch per registered tab and per registered store, *)
(* one fetch of the colors and one of the images when they are registered  *)
(* and no fetch of them is in flight, and nothing else; no cache entry     *)
(* changes in that step.  A tab is registered exactly when the application *)
(* has read it since configure; a store, the colors and the images are     *)
(* registered when the application has read them, and also once a sync of  *)
(* them has succeeded.                                                     *)

AllChanged(step) == step.op = "translationsUpdated" /\ step.arg = << AllScope >>

----------------------------------------------------------------------------
(* SpecNotify: every kind of binding.  The server lists the tab "about";   *)
(* the application observes, in a fixed order, a key of the tab "home"     *)
(* with a default value, the language list, the language, a store, a       *)
(* color and an image; content of every kind arrives underneath.           *)

HomeCta == << "home", ":", "cta" >>
MetaLanguages == << "meta", ":", "languages" >>
MetaLanguage == << "meta", ":", "language" >>
StoreProducts == << "store", ":", "products" >>
ColorPrimary == << "color", ":", "primary" >>
ImageLogo == << "image", ":", "logo" >>

NotifyRefs ==
    << HomeCta, MetaLanguages, MetaLanguage, StoreProducts, ColorPrimary, ImageLogo >>

NotifyAuth == AuthData("tok1", << "en", "fr" >>, << "about" >>, << >>)

\* observe(reference, listener, { defaultValue })
ObserveWith(reference, listener, defaultValue) ==
    /\ Trim(reference) # << >>
    /\ LET e == ObserveE(Cur, reference, listener, defaultValue)
       IN  /\ Bounded(e)
           /\ Engine(e)
           /\ last' = Step(e, "observe", << Trim(reference), listener >>)
    /\ handles' = Put(handles, << Trim(reference), listener >>, "live")

InitNotify == InitWith({ NoNavigator })

NextNotify ==
    \/ Configure(Cfg(None, FALSE))
    \/ AuthOk(NotifyAuth)
    \/ WaveDone
    \/ \E i \in 1..Len(NotifyRefs) :
          /\ Len(bindingChannels) = i - 1
          /\ ObserveWith(NotifyRefs[i], "f1",
                         IF i = 1 THEN VStr("Hello") ELSE VUndef)
    \/ TabResponse("ok", << Item("title", HiSalut) >>)
    \/ ColorsResponse("ok", << Slot("primary", "#fff") >>)
    \/ ImagesResponse("ok", << Slot("logo", "/logo.png") >>)
    \/ StoreResponse("ok", << "item1" >>)

SpecNotify == InitNotify /\ [][NextNotify]_vars

----------------------------------------------------------------------------
(* C11.  A notification invokes the listeners of a binding channel only    *)
(* when the value its reference resolves to is another one than the value  *)
(* last delivered on the channel, and a successful sync of one tab invokes *)
(* no listener of a channel bound to anything but a key of that tab.       *)

\* the same value: equal strings, or lists with equal items
SameValue(a, b) ==
    IF a[1] = "array" /\ b[1] = "array" THEN a[2] = b[2] ELSE a = b

\* the tab a reference names: what precedes its first colon
TabOf(reference) == SplitColon(reference, << "" >>)[1]

C11_OnlyChangedValuesNotify ==
    [][ \A i \in 1..Len(last'.calls) :
          last'.calls[i].reason # "Initial" =>
            LET ref == last'.calls[i].reference
                j == ChannelIndex(Cur, ref)
            IN  /\ j # 0
                /\ ~ SameValue(bindingChannels[j].lastValue, last'.calls[i].value)
                /\ last'.op = "syncTab" => TabOf(ref) = last'.arg[1].name
      ]_vars

\* the sync of the tab "about" delivers the fallback of "home:cta", observed
\* with the default "Hello", and the language list once more
C11_UnrelatedChannelsInvoked ==
    /\ last.op = "syncTab" /\ last.arg[1].name = "about"
    /\ \E i \in 1..Len(last.calls) :
          /\ last.calls[i].reference = HomeCta
          /\ last.calls[i].value = VStr(Fallback("home", "cta"))
    /\ \E i \in 1..Len(last.calls) :
          /\ last.calls[i].reference = MetaLanguages
          /\ last.calls[i].value = VList(availableLanguages, "fresh")

----------------------------------------------------------------------------
(* SpecQuery: the public queries.  The page loads on a durable store that  *)
(* is empty or holds content of every kind with the language "fr" (one key *)
(* of the tab "home" has no French value); the application queries known   *)
(* and unknown names, with and without a default, before and after         *)
(* configure, and reloads the page; no response arrives, so the cache      *)
(* stays as it was loaded.                                                 *)

TranslationWith(key, tab, defaultValue) ==
    Commit(TranslationE(Cur, key, tab, defaultValue),
           "translation", << key, tab, defaultValue >>)

ColorWith(key, defaultValue) ==
    Commit(ColorE(Cur, key, defaultValue), "color", << key, defaultValue >>)

ImageWith(key, defaultValue) ==
    Commit(ImageE(Cur, key, defaultValue), "image", << key, defaultValue >>)

DataStoreWith(apiIdentifier, defaultValue) ==
    Commit(DataStoreE(Cur, apiIdentifier, defaultValue),
           "dataStore", << apiIdentifier, defaultValue >>)

Resolve(reference, defaultValue) ==
    Commit(ResolveE(Cur, reference, defaultValue),
           "resolve", << reference, defaultValue >>)

\* the durable store a page load with content of every kind has left
FullStorage ==
    LET e == [ FieldInitialisers(EmptyStorage, NoNavigator) EXCEPT
                 !.cache =
                    [ s \in { "home", ColorsScope, ImagesScope } |->
                        CASE s = "home" ->
                               [ k \in Keys |->
                                   IF k = "title" THEN HiSalut
                                   ELSE Obj([ l \in { "en" } |-> "Go" ]) ]
                          [] s = ColorsScope ->
                               [ k \in ColorKeys |-> Obj([ q \in { "hex" } |-> "#fff" ]) ]
                          [] OTHER ->
                               [ k \in ImageKeys |-> Obj([ q \in { "url" } |-> "/logo.png" ]) ] ],
                 !.dataStoreCache =
                    [ st \in Stores |-> StoreArray(<< "item1" >>, "a") ],
                 !.knownTabs = { "home" },
                 !.knownStores = Stores ]
    IN  StorageSet(
          StorageSet(SaveCacheToStorage(e), "current_language", "fr"),
          "available_languages", [ has |-> TRUE, text |-> << "en", "fr" >> ]).storage

Defaults == { VUndef, VStr("dflt"), VList(<< "d" >>, "fresh") }

QueryRefs ==
    { << >>, << " " >>, << "home", ":" >>, HomeTitle, HomeCta,
      << "shop", ":", "title" >>, ColorPrimary, << "color", ":", "accent" >>,
      ImageLogo, StoreProducts, << "store", ":", "orders" >>,
      MetaToken, << "meta", ":", "zzz" >> }

InitQuery ==
    \E st \in { EmptyStorage, FullStorage } :
        /\ IsEngine(Construct(st, NoNavigator))
        /\ handles = NoHandles
        /\ last = Step(Construct(st, NoNavigator), "construct", << >>)

\* the application reads few scopes per page load
FewRead == Cardinality(accessed) < MaxScopesRead

NextQuery ==
    \/ Configure(Cfg(None, FALSE))
    \/ Reload(navigator)
    \/ \E k \in { "title", "cta", "nokey" }, t \in { "home", "shop" },
          d \in Defaults : FewRead /\ TranslationWith(k, t, d)
    \/ \E k \in { "primary", "accent" }, d \in Defaults : FewRead /\ ColorWith(k, d)
    \/ \E k \in { "logo", "hero" }, d \in Defaults : FewRead /\ ImageWith(k, d)
    \/ \E st \in { "products", "orders" }, d \in Defaults :
          FewRead /\ DataStoreWith(st, d)
    \/ \E ref \in QueryRefs, d \in Defaults : FewRead /\ Resolve(ref, d)

SpecQuery == InitQuery /\ [][NextQuery]_vars

----------------------------------------------------------------------------
(* C12.  Every public query returns a value, in every cache state and      *)
(* before configure: the cached value when there is one, else the caller's *)
(* default, else the fallback ("[tab:key]", null, or an empty list).       *)
(* resolve hands the caller's default on only when it has the type of the  *)
(* reference's kind (a string for a key of a tab, a list for a store), and *)
(* returns the session token as it is.                                     *)

\* the cached value if present, else the caller's default, else the fallback
FirstOf(cached, defaultValue, fallback) ==
    IF ~ Nullish(cached) THEN cached
    ELSE IF ~ Nullish(defaultValue) THEN defaultValue
    ELSE fallback

CachedString(scope, key, prop) ==
    IF /\ scope \in DOMAIN cache /\ key \in DOMAIN cache[scope]
       /\ cache[scope][key].defined /\ prop \in DOMAIN cache[scope][key].props
    THEN VStr(cache[scope][key].props[prop])
    ELSE VUndef

CachedItems(store) ==
    IF store \in DOMAIN dataStoreCache
    THEN VList(dataStoreCache[store].items, dataStoreCache[store].gen)
    ELSE VUndef

TranslationAnswer(key, tab, d) ==
    FirstOf(CachedString(tab, key, currentLanguage), d, VStr(Fallback(tab, key)))
ColorAnswer(key, d) == FirstOf(CachedString(ColorsScope, key, "hex"), d, VNull)
ImageAnswer(key, d) == FirstOf(CachedString(ImagesScope, key, "url"), d, VNull)
DataStoreAnswer(store, d) == FirstOf(CachedItems(store), d, VList(<< >>, "fresh"))

\* what resolve answers when the default of type `kind' alone is handed on
ResolveAnswer(reference, d, typed) ==
    LET parts == SplitColon(Trim(reference), << "" >>)
        prefix == parts[1]
        remainder == JoinColon(Tail(parts))
        Fit(kind) == IF typed /\ d[1] # kind THEN VUndef ELSE d
    IN  IF Trim(reference) = << >> THEN FirstOf(VUndef, d, VNull)
        ELSE CASE prefix = "color" -> ColorAnswer(remainder, d)
               [] prefix = "image" -> ImageAnswer(remainder, d)
               [] prefix = "store" -> DataStoreAnswer(remainder, Fit("array"))
               [] prefix = "meta" /\ remainder = "auth_token" ->
                    IF typed
                    THEN (IF authToken = None THEN VNull ELSE VStr(authToken))
                    ELSE FirstOf(OfSlot(authToken), d, VNull)
               [] prefix = "meta" -> FirstOf(VUndef, d, VNull)
               [] OTHER ->
                    TranslationAnswer(remainder, prefix,
                                      IF remainder = "" THEN d ELSE Fit("string"))

DirectAnswers ==
    /\ last.op = "translation" =>
          last.ret = TranslationAnswer(last.arg[1], last.arg[2], last.arg[3])
    /\ last.op = "color" => last.ret = ColorAnswer(last.arg[1], last.arg[2])
    /\ last.op = "image" => last.ret = ImageAnswer(last.arg[1], last.arg[2])
    /\ last.op = "dataStore" => last.ret = DataStoreAnswer(last.arg[1], last.arg[2])

----------------------------------------------------------------------------
(* SpecConfig: sessions.  The application configures the engine again and  *)
(* again, with valid credentials and a realtime secret, without a project  *)
(* id, without an API key or with no configuration object at all;          *)
(* authentication succeeds or fails; the application refreshes, reads the  *)
(* tab "home" and binds a listener to one of its keys.                     *)

NoProjectId == [ Cfg(None, TRUE) EXCEPT !.projectId = FALSE ]
NoApiKey == [ Cfg(None, TRUE) EXCEPT !.apiKey = FALSE ]

Valid(cfg) == cfg.projectId /\ cfg.apiKey

InitConfig == InitWith({ NoNavigator })

NextConfig ==
    \/ \E cfg \in { Cfg(None, TRUE), NoProjectId, NoApiKey, NoConfig } : Configure(cfg)
    \/ AuthOk(TabAuth(<< "home" >>))
    \/ AuthError
    \/ WaveDone
    \/ Refresh
    \/ Translation("title", "home")
    \/ Observe(HomeTitle, "f1")
    \/ TabResponse("ok", << Item("title", HiSalut) >>)
    \/ ColorsResponse("ok", << Slot("primary", "#fff") >>)
    \/ ImagesResponse("error", << >>)
    \/ SocketConnect
    \/ HandshakeSent
    \/ HandshakeAck

SpecConfig == InitConfig /\ [][NextConfig]_vars

----------------------------------------------------------------------------
(* SpecConfigTs: the same application on the TypeScript source of the      *)
(* engine (src/cmscure.ts), whose configure differs.                       *)

ConfigureTs(cfg) ==
    /\ cycle.pc = "idle"
    /\ Commit(ConfigureTsE(Cur, cfg), "configure", << cfg >>)

InitConfigTs == InitWith({ NoNavigator })

NextConfigTs ==
    \/ \E cfg \in { Cfg(None, TRUE), NoProjectId, NoApiKey } : ConfigureTs(cfg)
    \/ AuthOk(TabAuth(<< "home" >>))
    \/ AuthError
    \/ WaveDone
    \/ Translation("title", "home")
    \/ Observe(HomeTitle, "f1")
    \/ TabResponse("ok", << Item("title", HiSalut) >>)
    \/ ColorsResponse("ok", << Slot("primary", "#fff") >>)
    \/ ImagesResponse("error", << >>)
    \/ SocketConnect
    \/ HandshakeSent
    \/ HandshakeAck

SpecConfigTs == InitConfigTs /\ [][NextConfigTs]_vars

----------------------------------------------------------------------------
(* C13.  A configure call without a project id or without an API key has   *)
(* no effect: the stored configuration, the subscription sets and flags,   *)
(* the language-resolved flag and the handshake flag stay as they are, no  *)
(* authentication request is sent and nothing is notified.                 *)

C13_InvalidConfigureHasNoEffect ==
    [][ (last'.op = "configure" /\ ~ Valid(last'.arg[1])) =>
          /\ config' = config
          /\ autoSubscribedTabs' = autoSubscribedTabs
          /\ autoSubscribedStores' = autoSubscribedStores
          /\ autoSubscribedColors' = autoSubscribedColors
          /\ autoSubscribedImages' = autoSubscribedImages
          /\ autoLanguageResolved' = autoLanguageResolved
          /\ handshakeAcknowledged' = handshakeAcknowledged
          /\ cycle' = cycle /\ fetches' = fetches
          /\ last'.events = << >> /\ last'.calls = << >> /\ last'.started = << >>
      ]_vars

\* the TypeScript source: a call without an API key in a live session
\* replaces the configuration, drops the flags, notifies and authenticates
C13_InvalidConfigureTakesEffect ==
    /\ last.op = "configure" /\ last.arg[1] = NoApiKey
    /\ config = NoApiKey
    /\ ~ autoLanguageResolved /\ ~ handshakeAcknowledged
    /\ cycle.pc = "auth"
    /\ \E i \in 1..Len(last.events) : last.events[i].name = "contentUpdated"

----------------------------------------------------------------------------
(* C14.  A failed authentication, in configure or in refresh, is followed  *)
(* by nothing: no further authentication request, no fetch, no realtime    *)
(* channel opened, the token kept and no content-changed notification.     *)

C14_FailedAuthIsSilent ==
    [][ last'.op = "authError" =>
          /\ cycle'.pc = "idle"
          /\ last'.started = << >> /\ fetches' = fetches
          /\ socket' = socket
          /\ authToken' = authToken
          /\ last'.events = << >> /\ last'.calls = << >>
      ]_vars

\* the failed authentication of a refresh is followed by the notification
\* "ManualRefresh"
C14_FailedRefreshNotifies ==
    /\ last.op = "authError"
    /\ authToken = "tok1" /\ cycle.pc = "idle" /\ last.started = << >>
    /\ \E i \in 1..Len(last.events) :
          /\ last.events[i].name = "contentUpdated"
          /\ last.events[i].detail.reason = "ManualRefresh"

----------------------------------------------------------------------------
(* C15.  When a configure call with valid credentials issues its           *)
(* authentication request, the handshake flag and the language-resolved    *)
(* flag are false and the subscription registry holds nothing of the       *)
(* previous session: it holds exactly the scopes that the references of    *)
(* the binding channels name, which the call's "CachedDataLoaded"          *)
(* notification has resolved and thereby subscribed again.                 *)

\* the scope a reference subscribes when it is resolved
RefScopes(reference) ==
    LET parts == SplitColon(Trim(reference), << "" >>)
        prefix == parts[1]
        remainder == JoinColon(Tail(parts))
    IN  CASE prefix = "color" -> { << "colors", ColorsScope >> }
          [] prefix = "image" -> { << "images", ImagesScope >> }
          [] prefix = "store" /\ remainder # "" -> { << "store", remainder >> }
          [] prefix \notin { "color", "image", "store", "meta", "" }
               /\ remainder # "" -> { << "tab", prefix >> }
          [] OTHER -> {}

BoundScopes ==
    UNION { RefScopes(bindingChannels[i].reference) : i \in 1..Len(bindingChannels) }

ValidConfigure(step) == step.op = "configure" /\ Valid(step.arg[1])

\* the claim as the spec states it: the registry is empty
C15_ConfigureEmptiesRegistry ==
    ValidConfigure(last) =>
        /\ cycle.pc = "auth"
        /\ autoSubscribedTabs = {} /\ autoSubscribedStores = {}
        /\ ~ autoSubscribedColors /\ ~ autoSubscribedImages
        /\ ~ handshakeAcknowledged /\ ~ autoLanguageResolved

C15_ConfigureResetsToBindings ==
    ValidConfigure(last) =>
        /\ cycle.pc = "auth"
        /\ autoSubscribedTabs = { sc[2] : sc \in { b \in BoundScopes : b[1] = "tab" } }
        /\ autoSubscribedStores =
              { sc[2] : sc \in { b \in BoundScopes : b[1] = "store" } }
        /\ autoSubscribedColors <=> << "colors", ColorsScope >> \in BoundScopes
        /\ autoSubscribedImages <=> << "images", ImagesScope >> \in BoundScopes
        /\ ~ handshakeAcknowledged /\ ~ autoLanguageResolved

\* a second configure in a session that had synced the colors and holds a
\* binding on the tab "home": the tab is subscribed, the colors are not
C15_Witness ==
    /\ ValidConfigure(last)
    /\ authToken = "tok1" /\ ColorsScope \in DOMAIN cache
    /\ bindingChannels # << >>
    /\ autoSubscribedTabs = { "home" } /\ ~ autoSubscribedColors

----------------------------------------------------------------------------
(* C16.  At every moment at most one fetch is outstanding for each tab and *)
(* for each store, forced re-syncs included.                               *)

C16_OneFetchPerScope ==
    /\ \A T \in Tabs : Outstanding(fetches, "tab", T) <= 1
    /\ \A S \in Stores : Outstanding(fetches, "store", S) <= 1

\* a realtime notification has started a forced fetch of a tab and of a
\* store while an unforced fetch of each was outstanding
C16_ForcedFetchBesideRunning ==
    /\ last.op = "translationsUpdated"
    /\ \E f, g \in BagToSet(fetches) :
          /\ f.kind = "tab" /\ g.kind = "tab" /\ f.name = g.name
          /\ ~ f.force /\ g.force
          /\ \E i \in StartedFor(last, "tab", g.name) : last.started[i] = g
    /\ \E f, g \in BagToSet(fetches) :
          /\ f.kind = "store" /\ g.kind = "store" /\ f.name = g.name
          /\ ~ f.force /\ g.force
          /\ \E i \in StartedFor(last, "store", g.name) : last.started[i] = g

----------------------------------------------------------------------------
(* SpecRealtime: change notifications.  A project with a realtime secret;  *)
(* the server lists no tab and no store; the application reads nothing;    *)
(* the colors of the initial wave may fail and the images do; the server   *)
(* sends notifications for the tab "about", the store "products", the      *)
(* colors and the images.                                                  *)

InitRealtime == InitWith({ NoNavigator })

NextRealtime ==
    \/ Configure(Cfg(None, TRUE))
    \/ AuthOk(TabAuth(<< >>))
    \/ WaveDone
    \/ SocketConnect
    \/ \E o \in { "ok", "error" } : ColorsResponse(o, << Slot("primary", "#fff") >>)
    \/ ImagesResponse("error", << >>)
    \/ StoreResponse("ok", << "item1" >>)
    \/ \E screenName \in { "about", ColorsScope, ImagesScope } :
          TranslationsUpdated(screenName)
    \/ DataStoreUpdated("products")
    \/ ImagesUpdated

SpecRealtime == InitRealtime /\ [][NextRealtime]_vars

----------------------------------------------------------------------------
(* C17.  A change notification for a scope that is neither known nor       *)
(* subscribed (a store, a tab, the colors or the images) starts no fetch   *)
(* and leaves the cache and the subscription registry as they are.         *)

\* the step `step' handles a notification whose scope is neither known nor
\* subscribed in the state before it
Unsolicited(step) ==
    \/ /\ step.op = "dataStoreUpdated"
       /\ step.arg[1] \notin knownStores \cup autoSubscribedStores
    \/ /\ step.op = "translationsUpdated" /\ step.arg[1] = ColorsScope
       /\ ~ autoSubscribedColors
    \/ /\ step.op = "translationsUpdated" /\ step.arg[1] = ImagesScope
       /\ ~ autoSubscribedImages
    \/ /\ step.op = "imagesUpdated" /\ ~ autoSubscribedImages
    \/ /\ step.op = "translationsUpdated" /\ step.arg[1] \in Tabs
       /\ step.arg[1] \notin knownTabs \cup autoSubscribedTabs

C17_UnsolicitedIsIgnored ==
    [][ Unsolicited(last') =>
          /\ last'.started = << >> /\ fetches' = fetches
          /\ cache' = cache /\ dataStoreCache' = dataStoreCache
          /\ autoSubscribedTabs' = autoSubscribedTabs
          /\ autoSubscribedStores' = autoSubscribedStores
          /\ autoSubscribedColors' = autoSubscribedColors
          /\ autoSubscribedImages' = autoSubscribedImages
      ]_vars

\* the store "products", never listed by the server and never read, has
\* been fetched on a notification, cached and subscribed
C17_UnsolicitedStoreCached ==
    /\ last.op = "syncStore" /\ last.arg[1].reason = "RealtimeUpdate"
    /\ accessed = {}
    /\ "products" \in DOMAIN dataStoreCache
    /\ "products" \in autoSubscribedStores

----------------------------------------------------------------------------
(* SpecFlags: the colors and the images.  A project with a realtime        *)
(* secret and no tab or store; the application reads a color and an image  *)
(* and switches language; the socket connects, acknowledges, and delivers  *)
(* notifications for the colors, the images and everything.                *)

InitFlags == InitWith({ NoNavigator })

NextFlags ==
    \/ Configure(Cfg(None, TRUE))
    \/ AuthOk(LangAuth(<< "en", "fr" >>))
    \/ WaveDone
    \/ Color("primary")
    \/ Image("logo")
    \/ SetLanguage("fr")
    \/ SocketConnect
    \/ HandshakeSent
    \/ HandshakeAck
    \/ \E screenName \in { ColorsScope, ImagesScope, AllScope } :
          TranslationsUpdated(screenName)
    \/ ImagesUpdated
    \/ \E o \in { "ok", "error" } : ColorsResponse(o, << Slot("primary", "#fff") >>)
    \/ \E o \in { "ok", "404" } : ImagesResponse(o, << Slot("logo", "/logo.png") >>)

SpecFlags == InitFlags /\ [][NextFlags]_vars

----------------------------------------------------------------------------
(* C18.  At every moment at most one colors fetch and at most one images   *)
(* fetch is outstanding, and a step taken while the in-flight flag of the  *)
(* colors (images) is set issues no colors (images) request, whatever      *)
(* triggers the sync.                                                      *)

C18_OneColorsOneImagesFetch ==
    [][ /\ Outstanding(fetches', "colors", ColorsScope) <= 1
        /\ Outstanding(fetches', "images", ImagesScope) <= 1
        /\ colorsSyncInFlight => StartedFor(last', "colors", ColorsScope) = {}
        /\ imagesSyncInFlight => StartedFor(last', "images", ImagesScope) = {}
        /\ Cardinality(StartedFor(last', "colors", ColorsScope)) <= 1
        /\ Cardinality(StartedFor(last', "images", ImagesScope)) <= 1
      ]_vars

\* an "everything changed" notification arrives while the colors and the
\* images, both subscribed, are being fetched: no request is issued
C18_Witness ==
    /\ last.op = "translationsUpdated" /\ last.arg = << AllScope >>
    /\ autoSubscribedColors /\ autoSubscribedImages
    /\ last.started = << >>
    /\ Outstanding(fetches, "colors", ColorsScope) = 1
    /\ Outstanding(fetches, "images", ImagesScope) = 1

----------------------------------------------------------------------------
(* C19.  When "InitialSyncComplete" is emitted, after the persist, no      *)
(* fetch is outstanding for a known tab, a known store, the colors or the  *)
(* images, a fetch that was in flight before the wave started included.    *)

InitialSyncComplete(step) ==
    /\ step.op = "waveDone"
    /\ \E i \in 1..Len(step.events) :
          /\ step.events[i].name = "contentUpdated"
          /\ step.events[i].detail.reason = "InitialSyncComplete"

C19_CompleteAfterAllSettled ==
    InitialSyncComplete(last) =>
        /\ \A T \in knownTabs : Outstanding(fetches, "tab", T) = 0
        /\ \A S \in knownStores : Outstanding(fetches, "store", S) = 0
        /\ Outstanding(fetches, "colors", ColorsScope) = 0
        /\ Outstanding(fetches, "images", ImagesScope) = 0

\* the tab "home", listed by the server, was being fetched for a read of
\* the application when the wave started, and still is
C19_CompleteWhileFetching ==
    /\ InitialSyncComplete(last)
    /\ "home" \in knownTabs /\ "home" \notin DOMAIN cache
    /\ \E f \in BagToSet(fetches) :
          f.kind = "tab" /\ f.name = "home" /\ f.reason = "AutoSubscribe"
    /\ storage.cache.has

(***************************************************************************)
(* The realtime channel: connects, handshakes, acknowledgements and        *)
(* disconnects, with reconfiguration and manual refreshes in between.      *)
(***************************************************************************)

InitSocket == InitConfig

NextSocket ==
    \/ \E secret \in BOOLEAN : Configure(Cfg(None, secret))
    \/ AuthOk(TabAuth(<< >>))
    \/ AuthError
    \/ WaveDone
    \/ Refresh
    \/ SocketConnect
    \/ SocketDisconnect
    \/ HandshakeSent
    \/ HandshakeFailed
    \/ HandshakeAck
    \/ ColorsResponse("error", << >>)
    \/ ImagesResponse("error", << >>)

SpecSocket == InitSocket /\ [][NextSocket]_vars

(***************************************************************************)
(* C20: the channel goes from disconnected to connecting, to connected     *)
(* with the handshake pending, to acknowledged.  The handshake flag is     *)
(* set only by a handshake_ack that arrives on a connection on which the   *)
(* handshake message was sent; every disconnect, every re-initialisation   *)
(* of the socket and every configure clears it, so while it is set the     *)
(* socket is connected and the handshake of that connection has been       *)
(* acknowledged.                                                           *)
(***************************************************************************)

C20_LiveOnlyByAck ==
    [][ /\ handshakeAcknowledged' =>
              socket' = "connected" /\ handshake' = "acked"
        /\ (handshakeAcknowledged' /\ ~ handshakeAcknowledged) =>
              /\ last'.op = "handshake_ack"
              /\ socket = "connected" /\ handshake = "sent"
        /\ (\/ last'.op = "disconnect"
            \/ ValidConfigure(last')
            \/ socket' = "connecting") => ~ handshakeAcknowledged'
        /\ socket' = "connected" =>
              socket \in { "connecting", "connected" }
        /\ handshake' = "acked" => handshake \in { "sent", "acked" }
        /\ handshake' = "sent" => handshake \in { "pending", "sent" }
      ]_vars

\* the connection drops while acknowledged: the flag is cleared and the
\* socket reconnects
C20_DisconnectWhileLive ==
    /\ last.op = "disconnect" /\ last.arg = << TRUE >>
    /\ ~ handshakeAcknowledged
    /\ socket = "connecting" /\ handshake = "none"

----------------------------------------------------------------------------
(* SpecGate: change notifications around the handshake.  A project with a  *)
(* realtime secret whose server lists the tab "home"; the socket connects, *)
(* the handshake is sent or fails, the server acknowledges it, the         *)
(* connection drops; notifications for "home", for the store "products"    *)
(* and for the images arrive at any moment the socket is connected.        *)

InitGate == InitWith({ NoNavigator })

NextGate ==
    \/ Configure(Cfg(None, TRUE))
    \/ AuthOk(TabAuth(<< "home" >>))
    \/ WaveDone
    \/ SocketConnect
    \/ SocketDisconnect
    \/ HandshakeSent
    \/ HandshakeFailed
    \/ HandshakeAck
    \/ TabResponse("ok", << Item("title", HiSalut) >>)
    \/ ColorsResponse("error", << >>)
    \/ ImagesResponse("error", << >>)
    \/ StoreResponse("error", << >>)
    \/ TranslationsUpdated("home")
    \/ DataStoreUpdated("products")
    \/ ImagesUpdated

SpecGate == InitGate /\ [][NextGate]_vars

----------------------------------------------------------------------------
(* C21.  A change notification (translationsUpdated, dataStoreUpdated,     *)
(* imagesUpdated) starts a fetch only while the handshake of the current   *)
(* connection is acknowledged; one that arrives between the connect and    *)
(* the handshake_ack starts none.                                          *)

Notification(step) ==
    step.op \in { "translationsUpdated", "dataStoreUpdated", "imagesUpdated" }

C21_NotificationsNeedLive ==
    [][ (Notification(last') /\ ~ handshakeAcknowledged) =>
            last'.started = << >> /\ fetches' = fetches
      ]_vars

\* a notification for the listed tab "home", received after the handshake
\* message was sent and before its acknowledgement, has started a fetch
C21_FetchBeforeAck ==
    /\ last.op = "translationsUpdated" /\ last.arg = << "home" >>
    /\ socket = "connected" /\ handshake = "sent"
    /\ ~ handshakeAcknowledged
    /\ StartedFor(last, "tab", "home") # {}

----------------------------------------------------------------------------
(* SpecAck: the re-sync of an acknowledged handshake.  A project with a    *)
(* realtime secret whose server lists no tab and no store; the application *)
(* reads a key of the tab "home", a store and a color; the socket          *)
(* connects, sends its handshake, is acknowledged and drops again.  The   *)
(* application configures once.                                            *)

InitAck == InitWith({ NoNavigator })

NextAck ==
    \/ config = NoConfig /\ Configure(Cfg(None, TRUE))
    \/ AuthOk(TabAuth(<< >>))
    \/ WaveDone
    \/ Translation("title", "home")
    \/ DataStore("products")
    \/ Color("primary")
    \/ SocketConnect
    \/ SocketDisconnect
    \/ HandshakeSent
    \/ HandshakeAck
    \/ TabResponse("ok", << Item("title", HiSalut) >>)
    \/ StoreResponse("ok", << "item1" >>)
    \/ ColorsResponse("ok", << Slot("primary", "#fff") >>)
    \/ ImagesResponse("error", << >>)

SpecAck == InitAck /\ [][NextAck]_vars

----------------------------------------------------------------------------
(* C22.  Each handshake_ack starts one non-forced fetch for every tab and  *)
(* every store of the subscription registry whose in-flight marker is not  *)
(* set, one of the colors and one of the images when they are subscribed   *)
(* and not in flight, and no fetch for a scope outside the registry.       *)

Acknowledged(step) == step.op = "handshake_ack"

\* the claim as the spec states it: a request for every subscribed scope
C22_AckFetchesEverySubscribed ==
    [][ Acknowledged(last') =>
          /\ \A T \in Tabs :
               StartedFor(last', "tab", T) # {} <=> T \in autoSubscribedTabs
          /\ \A S \in Stores :
               StartedFor(last', "store", S) # {} <=> S \in autoSubscribedStores
          /\ StartedFor(last', "colors", ColorsScope) # {} <=> autoSubscribedColors
          /\ StartedFor(last', "images", ImagesScope) # {} <=> autoSubscribedImages
      ]_vars

C22_AckFetchesSubscribedNotInFlight ==
    [][ Acknowledged(last') =>
          /\ \A T \in Tabs :
               Cardinality(StartedFor(last', "tab", T)) =
                 IF T \in autoSubscribedTabs \ syncingTabs THEN 1 ELSE 0
          /\ \A S \in Stores :
               Cardinality(StartedFor(last', "store", S)) =
                 IF S \in autoSubscribedStores \ syncingStores THEN 1 ELSE 0
          /\ Cardinality(StartedFor(last', "colors", ColorsScope)) =
               IF autoSubscribedColors /\ ~ colorsSyncInFlight THEN 1 ELSE 0
          /\ Cardinality(StartedFor(last', "images", ImagesScope)) =
               IF autoSubscribedImages /\ ~ imagesSyncInFlight THEN 1 ELSE 0
          /\ \A i \in 1..Len(last'.started) :
               /\ ~ last'.started[i].force
               /\ last'.started[i].reason = "LanguageChange"
      ]_vars

\* the acknowledgement re-fetches the subscribed store and colors and sends
\* nothing for the subscribed tab "home", whose first fetch is outstanding
C22_Witness ==
    /\ Acknowledged(last)
    /\ "home" \in autoSubscribedTabs /\ "home" \in syncingTabs
    /\ StartedFor(last, "tab", "home") = {}
    /\ StartedFor(last, "store", "products") # {}
    /\ StartedFor(last, "colors", ColorsScope) # {}
    /\ StartedFor(last, "tab", "about") = {}

----------------------------------------------------------------------------
(* SpecWave: the initial sync wave with failures.  The server lists the    *)
(* tab "home" and the store "products"; every request of the wave          *)
(* succeeds or fails independently; the application configures again, so   *)
(* that a wave also runs over a cache the previous one filled.             *)

InitWave == InitWith({ NoNavigator })

NextWave ==
    \/ Configure(Cfg(None, FALSE))
    \/ AuthOk(StoreAuth)
    \/ WaveDone
    \/ \E items \in { << Item("title", HiSalut) >>, << Item("cta", GoVa) >> } :
          TabResponse("ok", items)
    \/ TabResponse("error", << >>)
    \/ \E o \in { "ok", "error" } : ColorsResponse(o, << Slot("primary", "#fff") >>)
    \/ \E o \in { "ok", "error" } : ImagesResponse(o, << Slot("logo", "/logo.png") >>)
    \/ \E o \in { "ok", "error" } : StoreResponse(o, << "item1" >>)

SpecWave == InitWave /\ [][NextWave]_vars

----------------------------------------------------------------------------
(* C23.  When a request of the sync wave fails, the scope's cache entry    *)
(* and the durable store keep their value and nothing is notified; the     *)
(* wave goes on: the other requests stay outstanding, a sibling's          *)
(* successful response writes its own result, and once all have settled    *)
(* the wave persists the cache and emits InitialSyncComplete.              *)

SyncStep(step) ==
    step.op \in { "syncTab", "syncStore", "syncColors", "syncImages" }

FailedFetch(step) ==
    SyncStep(step) /\ step.arg[1].reason = "InitialSync" /\ step.arg[2] = "error"

C23_FailureIsLocal ==
    [][ /\ FailedFetch(last') =>
              /\ cache' = cache /\ dataStoreCache' = dataStoreCache
              /\ storage' = storage
              /\ last'.events = << >> /\ last'.calls = << >>
              /\ cycle' = cycle
              /\ fetches' = fetches (-) SetToBag({ last'.arg[1] })
        /\ (last'.op = "syncTab" /\ last'.arg[2] = "ok") =>
              cache'[last'.arg[1].name] = KeyMapOf(last'.arg[3], EmptyFn)
        /\ (last'.op = "syncStore" /\ last'.arg[2] = "ok") =>
              dataStoreCache'[last'.arg[1].name].items = last'.arg[3]
        /\ (cycle.pc = "wave" /\ cycle'.pc # "wave") =>
              /\ InitialSyncComplete(last')
              /\ storage'.cache = [ has |-> TRUE, text |-> StringifyCache(cache') ]
              /\ storage'.datastore_cache =
                   [ has |-> TRUE, text |-> StringifyStores(dataStoreCache') ]
      ]_vars

\* the request for the tab "home" failed, the store's succeeded; the wave
\* has ended with the store persisted and InitialSyncComplete emitted
C23_Witness ==
    /\ InitialSyncComplete(last)
    /\ "home" \in knownTabs /\ "home" \notin DOMAIN cache
    /\ Outstanding(fetches, "tab", "home") = 0
    /\ "products" \in DOMAIN dataStoreCache
    /\ storage.datastore_cache.text = StringifyStores(dataStoreCache)

----------------------------------------------------------------------------
(* C24.  A 404 response to the request for a tab is no error: the sync     *)
(* ends, the in-flight marker of the tab is cleared, and afterwards the    *)
(* cache holds no key for the tab, so that every translation of the tab    *)
(* is the fallback.                                                        *)

NotFound(step) == step.op = "syncTab" /\ step.arg[2] = "404"

C24_NotFoundLeavesTabEmpty ==
    NotFound(last) =>
        /\ last.arg[1].name \notin syncingTabs
        /\ \A k \in Keys :
              TranslationE(Cur, k, last.arg[1].name, VUndef).ret =
                VStr(Fallback(last.arg[1].name, k))

\* the tab "home" answered 404 and its key "title", cached by an earlier
\* sync, is still served
C24_NotFoundKeepsStaleKeys ==
    /\ NotFound(last) /\ last.arg[1].name = "home"
    /\ "home" \notin syncingTabs
    /\ last.events = << >>
    /\ "home" \in DOMAIN cache
    /\ "title" \in DOMAIN cache["home"]
    /\ TranslationE(Cur, "title", "home", VUndef).ret = VStr("Hi")

----------------------------------------------------------------------------
(* SpecPriority: the sources of the initial language.  The host prefers    *)
(* nothing, "fr-CA", or "fr-CA" before "de"; the project's default is      *)
(* absent, "FR" or unknown to the server; the language a session applied   *)
(* stays in the durable store for the next configure.                      *)

FrCaDeNavigator == [ languages |-> << "fr-CA", "de" >>, language |-> "fr-CA" ]

PriorityLists == { << "en", "fr" >>, << "FR", "de" >>, << "de", "EN" >>,
                   << "de" >>, << >> }

InitPriority == InitWith({ NoNavigator, FrCaNavigator, FrCaDeNavigator })

NextPriority ==
    \/ \E d \in { None, "FR", "xx" } : Configure(Cfg(d, FALSE))
    \/ \E l \in PriorityLists : AuthOk(LangAuth(l))
    \/ WaveDone
    \/ \E l \in { "en", "de" } : SetLanguage(l)
    \/ ColorsResponse("error", << >>)
    \/ ImagesResponse("error", << >>)

SpecPriority == InitPriority /\ [][NextPriority]_vars

----------------------------------------------------------------------------
(* C25.  The initial language is taken from the first source that matches  *)
(* an available language, compared in lower case: the stored language,     *)
(* the configured default, the host's preferences (each preference in      *)
(* order, its full tag and then its base code), "en", and the first        *)
(* available language.                                                     *)

\* the host's preference list: navigator.languages, then navigator.language
HostList(nav) ==
    nav.languages \o (IF nav.language # None THEN << nav.language >> ELSE << >>)

MatchesAvailable(code, avail) ==
    code # None /\ \E i \in 1..Len(avail) : Lower(avail[i]) = Lower(code)

\* every full tag, then every base code
TagsThenBases(raw) ==
    [ k \in 1..(2 * Len(raw)) |->
        IF k <= Len(raw) THEN Lower(raw[k]) ELSE BaseOf(Lower(raw[k - Len(raw)])) ]

\* preference by preference: its full tag, then its base code
TagAndBaseEach(raw) ==
    [ k \in 1..(2 * Len(raw)) |->
        IF k % 2 = 1 THEN Lower(raw[(k + 1) \div 2])
        ELSE BaseOf(Lower(raw[k \div 2])) ]

FirstMatch(probes, avail) ==
    LET hits == { k \in 1..Len(probes) : MatchesAvailable(probes[k], avail) }
    IN  IF hits = {} THEN None
        ELSE probes[CHOOSE k \in hits : \A j \in hits : k <= j]

\* the lower-cased code the priority chain yields for the host probes given
Prioritised(stored, default, probes, avail) ==
    IF MatchesAvailable(stored, avail) THEN Lower(stored)
    ELSE IF MatchesAvailable(default, avail) THEN Lower(default)
    ELSE IF FirstMatch(probes, avail) # None THEN FirstMatch(probes, avail)
    ELSE IF MatchesAvailable("en", avail) THEN "en"
    ELSE Lower(avail[1])

\* an authentication that resolves the language of the session
Resolves(step) == step.op = "authOk" /\ ~ autoLanguageResolved

\* the claim read as two passes over the host's list: all the full tags,
\* then all the base codes
C25_TagsBeforeBases ==
    [][ Resolves(last') =>
          /\ Includes(availableLanguages', currentLanguage')
          /\ Lower(currentLanguage') =
               Prioritised(storage.current_language, desiredDefaultLanguage,
                           TagsThenBases(HostList(navigator)),
                           availableLanguages')
      ]_vars

C25_PriorityChain ==
    [][ Resolves(last') =>
          /\ Includes(availableLanguages', currentLanguage')
          /\ Lower(currentLanguage') =
               Prioritised(storage.current_language, desiredDefaultLanguage,
                           TagAndBaseEach(HostList(navigator)),
                           availableLanguages')
      ]_vars

\* the host prefers "fr-CA" before "de" and the server offers "FR" and
\* "de": the base code of the first preference wins over the second tag
C25_Witness ==
    /\ last.op = "authOk" /\ last.branch = "browser"
    /\ navigator = FrCaDeNavigator
    /\ availableLanguages = << "FR", "de" >>
    /\ currentLanguage = "FR"

----------------------------------------------------------------------------
(* C26.  setLanguage(L), L matching an available language other than the   *)
(* current one, sets the current language to the server's spelling of L,   *)
(* persists it, emits exactly one languageChanged carrying the new and the *)
(* previous language, sends no authentication request, and starts one      *)
(* non-forced fetch for every scope of the subscription registry that is   *)
(* not already being fetched and for no other scope.  setLanguage with a   *)
(* code no available language matches leaves the current and the          *)
(* persisted language as they are and emits no languageChanged.            *)

SetsLanguage(step) == step.op = "setLanguage"

\* the code given to setLanguage matches an available language
Matched(step) == MatchesAvailable(step.arg[1], availableLanguages)

Switches(step) ==
    /\ SetsLanguage(step) /\ Matched(step)
    /\ Lower(step.arg[1]) # Lower(currentLanguage)

LanguageEvents(step) ==
    { i \in 1..Len(step.events) : step.events[i].name = "languageChanged" }

----------------------------------------------------------------------------
(* SpecReenter: a listener that calls back.  The server offers "en" and    *)
(* "fr"; the application observes two keys of the tab "home", one of them  *)
(* with a listener that switches to "fr" whenever it is told of a change,  *)
(* and switches back to "en" itself.                                       *)

InitReenter == InitWith({ NoNavigator })

NextReenter ==
    \/ Configure(Cfg(None, FALSE))
    \/ AuthOk(LangAuth(<< "en", "fr" >>))
    \/ WaveDone
    \/ \E f \in { Switcher, "f1" } : Observe(HomeTitle, f)
    \/ Observe(HomeCta, "f2")
    \/ \E h \in DOMAIN handles : Unsubscribe(h[1], h[2])
    \/ SetLanguage("en")
    \/ TabResponse("ok", << Item("title", HiSalut), Item("cta", GoVa) >>)
    \/ ColorsResponse("error", << >>)
    \/ ImagesResponse("error", << >>)

SpecReenter == InitReenter /\ [][NextReenter]_vars

----------------------------------------------------------------------------
(* C27.  The listener invocations of one content-changed event happen      *)
(* within the step that emits it, channels in creation order and the       *)
(* listeners of a channel in registration order, and no invocation for     *)
(* another event lies between them, also when a listener calls             *)
(* setLanguage during the notification.                                    *)

\* the invocations a step made for a change (not the first call of observe)
Notified(step) ==
    { i \in 1..Len(step.calls) : step.calls[i].reason # "Initial" }

\* the place of an invocation: its channel, then its listener in the channel
PlaceOf(call) ==
    LET c == CHOOSE i \in 1..Len(bindingChannels) :
                 bindingChannels[i].reference = call.reference
        l == CHOOSE j \in 1..Len(bindingChannels[c].listeners) :
                 bindingChannels[c].listeners[j] = call.listener
    IN  << c, l >>

Before(p, q) == p[1] < q[1] \/ (p[1] = q[1] /\ p[2] < q[2])

C27_OneEventAtATime ==
    \A i, k \in Notified(last) :
        (i < k /\ last.calls[i].reason = last.calls[k].reason) =>
            /\ \A j \in Notified(last) :
                  (i < j /\ j < k) => last.calls[j].reason = last.calls[i].reason
            /\ Before(PlaceOf(last.calls[i]), PlaceOf(last.calls[k]))

\* the tab's response told the switching listener "Hi"; it switched to
\* "fr", which told both listeners "Salut"; then the response's event went
\* on and told the second listener "Hi"
C27_StaleValueAfterSwitch ==
    /\ last.op = "syncTab"
    /\ Len(last.calls) >= 4
    /\ last.calls[1].listener = Switcher /\ last.calls[1].value = VStr("Hi")
    /\ last.calls[2].listener = Switcher /\ last.calls[2].value = VStr("Salut")
    /\ last.calls[2].reason = "LanguageChanged"
    /\ last.calls[3].listener = "f1" /\ last.calls[3].value = VStr("Salut")
    /\ last.calls[4].listener = "f1" /\ last.calls[4].value = VStr("Hi")
    /\ last.calls[4].reason = last.calls[1].reason
    /\ currentLanguage = "fr"

----------------------------------------------------------------------------
(* C28.  While the configured project has no secret, and on a host without *)
(* Web Crypto, no handshake message is sent and the handshake is never     *)
(* acknowledged.                                                           *)

NoSecret == config # NoConfig /\ ~ config.projectSecret

C28_NoSecretNeverLive ==
    [][ /\ NoSecret' => ~ handshakeAcknowledged'
        /\ (last'.op = "handshake" /\ handshake' = "sent") =>
              ~ NoSecret /\ last'.arg = << TRUE >>
      ]_vars

\* the project configured last has no secret; the socket of the project
\* configured before it is still connected and its handshake has just been
\* acknowledged
C28_LiveWithoutSecret ==
    /\ last.op = "handshake_ack"
    /\ NoSecret
    /\ socket = "connected" /\ handshakeAcknowledged

----------------------------------------------------------------------------
(* C29.  Every request for a tab, a store, the colors or the images        *)
(* carries the token of a successful authentication of the current         *)
(* session: none is sent before that authentication has succeeded, and     *)
(* none with a null token.  A request reads #authToken as it is sent;      *)
(* #autoLanguageResolved, cleared by configure and set by the first        *)
(* successful authentication, tells whether the session has authenticated. *)

SendsRequest(step) == step.started # << >>

C29_FetchCarriesSessionToken ==
    [][ SendsRequest(last') =>
            authToken' # None /\ autoLanguageResolved'
      ]_vars

\* translation() called while the authentication request is outstanding
\* has sent a request for the tab with a null token
C29_FetchWithNullToken ==
    /\ last.op = "translation" /\ StartedFor(last, "tab", "home") # {}
    /\ cycle.pc = "auth"
    /\ authToken = None /\ ~ autoLanguageResolved

----------------------------------------------------------------------------
(* SpecRegistry: everything that touches the subscription registry.  The   *)
(* server lists the store "products"; the application configures once,    *)
(* observes a key of the tab "home" and unsubscribes, switches language    *)
(* and refreshes; requests succeed, fail or find nothing; the socket       *)
(* delivers a notification for the images.                                 *)

RegistryAuth == AuthData("tok1", << "en", "fr" >>, << >>, << "products" >>)

InitRegistry == InitWith({ NoNavigator })

NextRegistry ==
    \/ config = NoConfig /\ Configure(Cfg(None, TRUE))
    \/ AuthOk(RegistryAuth)
    \/ WaveDone
    \/ Refresh
    \/ Observe(HomeTitle, "f1")
    \/ \E h \in DOMAIN handles : Unsubscribe(h[1], h[2])
    \/ SetLanguage("fr")
    \/ \E o \in { "ok", "404" } : TabResponse(o, << Item("title", HiSalut) >>)
    \/ \E o \in { "ok", "error" } : ColorsResponse(o, << Slot("primary", "#fff") >>)
    \/ ImagesResponse("404", << >>)
    \/ StoreResponse("ok", << "item1" >>)
    \/ SocketConnect
    \/ ImagesUpdated

SpecRegistry == InitRegistry /\ [][NextRegistry]_vars

----------------------------------------------------------------------------
(* C30.  Between two configure calls the subscription registry only        *)
(* grows: no step other than a configure removes a tab or a store from it  *)
(* or clears the colors or the images flag.                                *)

C30_RegistryOnlyGrows ==
    [][ ~ ValidConfigure(last') =>
          /\ autoSubscribedTabs \subseteq autoSubscribedTabs'
          /\ autoSubscribedStores \subseteq autoSubscribedStores'
          /\ autoSubscribedColors => autoSubscribedColors'
          /\ autoSubscribedImages => autoSubscribedImages'
      ]_vars

\* the only observer of "home:title" has unsubscribed: the tab, the store
\* and the colors stay registered
C30_Witness ==
    /\ last.op = "unsubscribe" /\ bindingChannels = << >>
    /\ "home" \in autoSubscribedTabs
    /\ "products" \in autoSubscribedStores
    /\ autoSubscribedColors

----------------------------------------------------------------------------
(* C31.  Every binding channel has at least one listener in every state.   *)
(* A channel is created only by observe, for the reference observed; it is *)
(* removed only by an unsubscribe function, in the step that takes its     *)
(* last listener away; no other operation creates or removes a channel.    *)

ChannelRefs(channels) == { channels[i].reference : i \in 1..Len(channels) }

C31_ChannelsHaveListeners ==
    [][ /\ \A i \in 1..Len(bindingChannels') :
              bindingChannels'[i].listeners # << >>
        /\ Cardinality(ChannelRefs(bindingChannels')) = Len(bindingChannels')
        /\ ChannelRefs(bindingChannels') # ChannelRefs(bindingChannels) =>
              \/ /\ last'.op = "observe"
                 /\ ChannelRefs(bindingChannels') =
                      ChannelRefs(bindingChannels) \cup { last'.arg[1] }
              \/ /\ last'.op = "unsubscribe"
                 /\ ChannelRefs(bindingChannels') =
                      ChannelRefs(bindingChannels) \ { last'.arg[1] }
                 /\ \E i \in 1..Len(bindingChannels) :
                       /\ bindingChannels[i].reference = last'.arg[1]
                       /\ bindingChannels[i].listeners = << last'.arg[2] >>
      ]_vars

\* the last listener of "home:title" has left and the channel is gone,
\* while the channel of the token keeps its listener
C31_Witness ==
    /\ last.op = "unsubscribe" /\ last.arg[1] = HomeTitle
    /\ HomeTitle \notin ChannelRefs(bindingChannels)
    /\ MetaToken \in ChannelRefs(bindingChannels)

----------------------------------------------------------------------------
(* SpecMalformed: realtime messages as they arrive.  The field a message   *)
(* carries is a string, possibly empty, a number, or missing.  A project   *)
(* with a realtime secret; the server lists the tab "home" and the store   *)
(* "products".                                                             *)

VNumber(n) == << "number", n >>

\* JavaScript truthiness of a message field
Truthy(v) ==
    CASE v[1] = "string" -> v[2] # ""
      [] v[1] = "number" -> v[2] # 0
      [] OTHER -> FALSE

\* mutant: a message without a usable scope refreshes everything
OnTranslationsUpdated_AsAll(e, screenName) ==
    IF ~ Truthy(screenName) \/ screenName[1] # "string"
    THEN HandleSocketTranslationUpdate(e, AllScope)
    ELSE HandleSocketTranslationUpdate(e, screenName[2])

\* payload?.screenName of a translationsUpdated message, cmscure.js 469-475
OnTranslationsUpdated(e, screenName) ==
    IF ~ Truthy(screenName) \/ screenName[1] # "string" THEN e
    ELSE HandleSocketTranslationUpdate(e, screenName[2])

\* info?.storeApiIdentifier of a dataStoreUpdated message, cmscure.js 442-448
OnDataStoreUpdated(e, storeApiIdentifier) ==
    IF ~ Truthy(storeApiIdentifier) THEN e
    ELSE HandleDataStoreUpdated(e, storeApiIdentifier[2])

TranslationsMessage(screenName) ==
    /\ socket = "connected"
    /\ Commit(OnTranslationsUpdated(Cur, screenName),
              "translationsMessage", << screenName >>)

DataStoreMessage(storeApiIdentifier) ==
    /\ socket = "connected"
    /\ Commit(OnDataStoreUpdated(Cur, storeApiIdentifier),
              "dataStoreMessage", << storeApiIdentifier >>)

ScreenNameFields == { VStr("home"), VStr(""), VNumber(7), VNumber(0), VUndef, VNull }
StoreFields == { VStr("products"), VStr(""), VUndef, VNull }

MalformedAuth == AuthData("tok1", << "en", "fr" >>, << "home" >>, << "products" >>)

InitMalformed == InitWith({ NoNavigator })

NextMalformed ==
    \/ config = NoConfig /\ Configure(Cfg(None, TRUE))
    \/ AuthOk(MalformedAuth)
    \/ WaveDone
    \/ SocketConnect
    \/ SocketDisconnect
    \/ Observe(HomeTitle, "f1")
    \/ \E screenName \in ScreenNameFields : TranslationsMessage(screenName)
    \/ \E storeApiIdentifier \in StoreFields : DataStoreMessage(storeApiIdentifier)
    \/ \E o \in { "ok", "error" } : TabResponse(o, << Item("title", HiSalut) >>)
    \/ StoreResponse("ok", << "item1" >>)
    \/ ColorsResponse("error", << >>)
    \/ ImagesResponse("error", << >>)

SpecMalformed == InitMalformed /\ [][NextMalformed]_vars

----------------------------------------------------------------------------
(* C32.  A translationsUpdated message whose scope is missing, empty or    *)
(* not a string, and a dataStoreUpdated message without a store            *)
(* identifier, changes nothing: no fetch starts, and the cache, the        *)
(* registries, the subscriptions and the channels stay as they are.  A     *)
(* well-formed message for a registered scope starts its fetch in every    *)
(* state, so also after a message that was dropped.                        *)

\* the step `step' handles a message without a usable identifier
Malformed(step) ==
    \/ /\ step.op = "translationsMessage"
       /\ step.arg[1] \in ScreenNameFields \ { VStr("home") }
    \/ /\ step.op = "dataStoreMessage"
       /\ step.arg[1] \in StoreFields \ { VStr("products") }

C32_MalformedIsDropped ==
    [][ /\ Malformed(last') => /\ Cur' = Cur
                               /\ last'.started = << >>
                               /\ last'.events = << >>
        /\ /\ last'.op = "translationsMessage" /\ last'.arg[1] = VStr("home")
           /\ "home" \in knownTabs \cup autoSubscribedTabs
           => /\ Len(last'.started) = 1
              /\ last'.started[1].kind = "tab" /\ last'.started[1].name = "home"
              /\ CopiesIn(last'.started[1], fetches') =
                    CopiesIn(last'.started[1], fetches) + 1
        /\ last'.op = "dataStoreMessage" /\ last'.arg[1] = VStr("products")
           => /\ Len(last'.started) = 1
              /\ last'.started[1].kind = "store"
              /\ last'.started[1].name = "products"
      ]_vars

\* a message without a scope arrives while "home" is registered, observed
\* and cached
C32_Witness ==
    /\ Malformed(last) /\ last.op = "translationsMessage"
    /\ "home" \in knownTabs /\ bindingChannels # << >>
    /\ CachedTranslation(Cur, "home", "title") # None

----------------------------------------------------------------------------
(* C33.  After every successful sync of a tab, a store, the colors or the  *)
(* images, the durable store holds the serialisation of the content cache  *)
(* and of the data-store cache as they are in memory after the sync, and   *)
(* the known tabs and known stores as arrays of the in-memory sets; the    *)
(* scope the sync wrote is part of what is stored.                         *)

SuccessfulSync(step) == SyncStep(step) /\ step.arg[2] = "ok"

Persisted(st, c, d, tabs, stores) ==
    /\ st.cache = [ has |-> TRUE, text |-> StringifyCache(c) ]
    /\ st.datastore_cache = [ has |-> TRUE, text |-> StringifyStores(d) ]
    /\ st.known_tabs.has /\ Range(st.known_tabs.text) = tabs
    /\ Len(st.known_tabs.text) = Cardinality(tabs)
    /\ st.known_stores.has /\ Range(st.known_stores.text) = stores
    /\ Len(st.known_stores.text) = Cardinality(stores)

----------------------------------------------------------------------------
(* SpecChain: observers of keys the server does not hold.  The server's    *)
(* content is fixed: every tab holds the key "title" alone, and there are  *)
(* colors and images.  The application configures once and observes       *)
(* "home:cta", "about:cta" and "home:title", each once; afterwards only    *)
(* responses arrive.  Every request gets its response: weak fairness on    *)
(* the authentication, the responses and the end of the wave.              *)

AboutCta == << "about", ":", "cta" >>

ObserveOnce(reference, listener) ==
    /\ << reference, listener >> \notin DOMAIN handles
    /\ Observe(reference, listener)

SettleChain ==
    \/ AuthOk(TabAuth(<< >>))
    \/ WaveDone
    \/ TabResponse("ok", << Item("title", HiSalut) >>)
    \/ ColorsResponse("ok", << Slot("primary", "#fff") >>)
    \/ ImagesResponse("ok", << Slot("logo", "/logo.png") >>)

InitChain == InitWith({ NoNavigator })

NextChain ==
    \/ config = NoConfig /\ Configure(Cfg(None, FALSE))
    \/ \E reference \in { HomeCta, AboutCta, HomeTitle } : ObserveOnce(reference, "f1")
    \/ SettleChain

SpecChain == InitChain /\ [][NextChain]_vars /\ WF_vars(SettleChain)

----------------------------------------------------------------------------
(* C34.  With fixed server content and fixed observers, and no further     *)
(* call or realtime message, the engine comes to rest: from some state on  *)
(* no request is outstanding, hence none is started any more.              *)

C34_ComesToRest == <>[](fetches = EmptyBag)

\* The engine record without the outputs of the handler that produced it
Rest(e) ==
    [ e EXCEPT !.ret = VUndef, !.events = << >>, !.calls = << >>,
               !.started = << >>, !.branch = "none" ]

\* what the server answers for every tab
ServerTab == << Item("title", HiSalut) >>

\* The engine is busy with one request for a tab and nothing else: the
\* response to that request is the only step that can follow.
OneTabRequest ==
    /\ cycle.pc \notin { "auth", "wave" }
    /\ BagCardinality(fetches) = 1
    /\ \A f \in BagToSet(fetches) : f.kind = "tab"

(* C34, as a finite run refutes it.  If every behaviour comes to rest, no  *)
(* state in which one request is all that is pending leads back to itself  *)
(* through responses alone: the response to the request, then the response *)
(* to the one request pending after it.                                    *)
C34_NoRecurrence ==
    OneTabRequest =>
        \A f \in BagToSet(fetches) :
            LET e1 == Rest(SyncTabSettle(Cur, f, "ok", ServerTab))
            IN  \A g \in BagToSet(e1.fetches) :
                    \/ BagCardinality(e1.fetches) # 1
                    \/ g.kind # "tab"
                    \/ Rest(SyncTabSettle(e1, g, "ok", ServerTab)) # Cur

\* a sync of "home" has just succeeded with the reason CacheMiss, and its
\* notification has started a sync of "about" with the same reason, while
\* both observed keys are still missing from the cache
C34_ChainStep ==
    /\ last.op = "syncTab" /\ last.arg[2] = "ok"
    /\ last.arg[1].name = "home" /\ last.arg[1].reason = "CacheMiss"
    /\ \E i \in 1..Len(last.started) :
          /\ last.started[i].name = "about"
          /\ last.started[i].reason = "CacheMiss"
    /\ { "home", "about" } \subseteq DOMAIN cache
    /\ CachedTranslation(Cur, "home", "cta") = None
    /\ CachedTranslation(Cur, "about", "cta") = None

----------------------------------------------------------------------------
(* SpecServer: content that changes on the server.  The server holds the   *)
(* old content until it changes, once per scope, and announces the change  *)
(* on the socket.  A request sent because of an announcement is answered   *)
(* with the new content; a request sent earlier (the initial wave, the     *)
(* refresh at the handshake's acknowledgement) may have been served before *)
(* the change and is answered with the old one, however late its response  *)
(* arrives.  One session, one connection; the application reads "home"    *)
(* before the acknowledgement and the announcements come after it.         *)

OldTab == << Item("title", HiSalut) >>
NewTab == << Item("title", HiSalut), Item("cta", GoVa) >>
OldColors == << Slot("primary", "#fff") >>
NewColors == << Slot("primary", "#000") >>
OldStore == << "item1" >>
NewStore == << "item1", "item2" >>

\* what the server answers to the request f
Answer(f) ==
    LET new == f.reason = "RealtimeUpdate"
    IN  CASE f.kind = "tab" -> IF new THEN NewTab ELSE OldTab
          [] f.kind = "colors" -> IF new THEN NewColors ELSE OldColors
          [] f.kind = "store" -> IF new THEN NewStore ELSE OldStore
          [] OTHER -> << >>

TabAnswered ==
    \E f \in BagToSet(fetches) :
        /\ f.kind = "tab"
        /\ Commit([ SyncTabSettle(Cur, f, "ok", Answer(f)) EXCEPT !.ret = VUndef ],
                  "syncTab", << f, "ok", Answer(f), CachedKeys(Cur, f.name) >>)

ColorsAnswered ==
    \E f \in BagToSet(fetches) :
        /\ f.kind = "colors"
        /\ Commit([ SyncColorsSettle(Cur, f, "ok", Answer(f)) EXCEPT !.ret = VUndef ],
                  "syncColors", << f, "ok", Answer(f) >>)

StoreAnswered ==
    \E f \in BagToSet(fetches) :
        /\ f.kind = "store"
        /\ Commit([ SyncStoreSettle(Cur, f, "ok", Answer(f)) EXCEPT !.ret = VUndef ],
                  "syncStore", << f, "ok", Answer(f) >>)

InitServer == InitWith({ NoNavigator })

NextServer ==
    \/ config = NoConfig /\ Configure(Cfg(None, TRUE))
    \/ AuthOk(LiveAuth)
    \/ WaveDone
    \/ SocketConnect
    \/ HandshakeSent
    \/ HandshakeAck
    \/ handshake # "acked" /\ Translation("title", "home")
    \/ handshake = "acked" /\ \E screenName \in { "home", ColorsScope } :
                                 TranslationsUpdated(screenName)
    \/ handshake = "acked" /\ DataStoreUpdated("products")
    \/ TabAnswered
    \/ ColorsAnswered
    \/ StoreAnswered
    \/ ImagesResponse("ok", << Slot("logo", "/logo.png") >>)

SpecServer == InitServer /\ [][NextServer]_vars

----------------------------------------------------------------------------
(* C35.  After a change notification for a subscribed scope, once every    *)
(* request has been answered the cache of the scope holds the server's     *)
(* content as of the notification: the notification leaves a request       *)
(* outstanding that was sent at or after it, the answer to such a request  *)
(* puts the new content into the cache, and no answer that arrives later   *)
(* puts the old content back.                                              *)

\* a request for the scope, sent because of a notification, is outstanding
FreshRequest(bag, kind, name) ==
    \E f \in BagToSet(bag) :
        f.kind = kind /\ f.name = name /\ f.reason = "RealtimeUpdate"

HasNewTab(c) == "home" \in DOMAIN c /\ c["home"] = KeyMapOf(NewTab, EmptyFn)
HasNewColors(c) ==
    ColorsScope \in DOMAIN c /\ c[ColorsScope] = SlotMapOf(NewColors, "hex", EmptyFn)
HasNewStore(d) == "products" \in DOMAIN d /\ d["products"].items = NewStore

C35_NotificationWins ==
    [][ /\ (last'.op = "translationsUpdated" /\ last'.arg[1] = "home"
              /\ "home" \in autoSubscribedTabs \cup knownTabs)
              => FreshRequest(fetches', "tab", "home")
        /\ (last'.op = "translationsUpdated" /\ last'.arg[1] = ColorsScope
              /\ autoSubscribedColors)
              => FreshRequest(fetches', "colors", ColorsScope)
        /\ (last'.op = "dataStoreUpdated" /\ "products" \in autoSubscribedStores)
              => FreshRequest(fetches', "store", "products")
        /\ (SuccessfulSync(last') /\ last'.arg[1].reason = "RealtimeUpdate") =>
              CASE last'.op = "syncTab" -> HasNewTab(cache')
                [] last'.op = "syncColors" -> HasNewColors(cache')
                [] last'.op = "syncStore" -> HasNewStore(dataStoreCache')
                [] OTHER -> TRUE
        /\ SuccessfulSync(last') =>
              /\ HasNewTab(cache) => HasNewTab(cache')
              /\ HasNewColors(cache) => HasNewColors(cache')
              /\ HasNewStore(dataStoreCache) => HasNewStore(dataStoreCache')
      ]_vars

\* every request has been answered; the answer to the request sent at the
\* acknowledgement came after the answer to the request the notification
\* caused, and the cache of "home" holds the old content although the new
\* one was cached
C35_StaleAtRest ==
    /\ fetches = EmptyBag /\ cycle.pc \notin { "auth", "wave" }
    /\ last.op = "syncTab" /\ last.arg[2] = "ok"
    /\ last.arg[1].reason # "RealtimeUpdate"
    /\ last.arg[4] = { "title", "cta" }
    /\ cache["home"] = KeyMapOf(OldTab, EmptyFn)

----------------------------------------------------------------------------
(* C36.  The in-flight markers are exact in every state: a tab or a store  *)
(* is in its syncing set, and the flag of the colors or of the images is   *)
(* set, exactly when a request for that scope is outstanding.              *)

C36_MarkersExact ==
    /\ \A t \in Tabs : t \in syncingTabs <=> Outstanding(fetches, "tab", t) > 0
    /\ \A s \in Stores : s \in syncingStores <=> Outstanding(fetches, "store", s) > 0
    /\ colorsSyncInFlight <=> Outstanding(fetches, "colors", ColorsScope) > 0
    /\ imagesSyncInFlight <=> Outstanding(fetches, "images", ImagesScope) > 0

\* the response to one of two requests for "home" has just been handled in
\* the same session: the marker of "home" is cleared while the other
\* request is outstanding
C36_ClearedWhileOutstanding ==
    /\ last.op = "syncTab" /\ last.arg[1].name = "home"
    /\ "home" \notin syncingTabs
    /\ Outstanding(fetches, "tab", "home") > 0

----------------------------------------------------------------------------
(* SpecServed: every request is answered, and answered with success.  The  *)
(* server holds the key "title" of the tab "home" in every language.  One  *)
(* session; the application observes "home:title" with up to two listeners *)
(* and calls translation("title", "home") whenever it likes.               *)
(*                                                                         *)
(* Fairness.  The runtime delivers every response and runs its handler:    *)
(* weak fairness of the authentication's response, of the responses to the *)
(* requests for a tab, the colors and the images, and of the end of the    *)
(* wave.  WF_vars(A) is <>[](ENABLED <<A>>_vars) => []<><<A>>_vars; each   *)
(* condition is written in that form, with the action's enabling condition *)
(* spelled out from its guard, since a handler step always changes the     *)
(* requests in flight or the position of the session.                      *)

AuthEnabled ==
    cycle.pc = "auth" /\ \E tabs \in { << >>, << "home" >> } :
                            Bounded(AuthSucceeded(Cur, TabAuth(tabs)))

WaveEnabled ==
    /\ cycle.pc = "wave"
    /\ \A f \in BagToSet(fetches) : f.reason # "InitialSync"
    /\ Bounded(WaveSettled(Cur))

TabEnabled ==
    \E f \in BagToSet(fetches) :
        f.kind = "tab" /\ Bounded(SyncTabSettle(Cur, f, "ok", ServerTab))

ColorsEnabled ==
    \E f \in BagToSet(fetches) :
        /\ f.kind = "colors"
        /\ Bounded(SyncColorsSettle(Cur, f, "ok", << Slot("primary", "#fff") >>))

ImagesEnabled ==
    \E f \in BagToSet(fetches) :
        /\ f.kind = "images"
        /\ Bounded(SyncImagesSettle(Cur, f, "ok", << Slot("logo", "/logo.png") >>))

FairServed ==
    /\ []<>(~ AuthEnabled) \/ []<><< last'.op = "authOk" >>_vars
    /\ []<>(~ WaveEnabled) \/ []<><< last'.op = "waveDone" >>_vars
    /\ []<>(~ TabEnabled) \/ []<><< last'.op = "syncTab" >>_vars
    /\ []<>(~ ColorsEnabled) \/ []<><< last'.op = "syncColors" >>_vars
    /\ []<>(~ ImagesEnabled) \/ []<><< last'.op = "syncImages" >>_vars

InitServed == InitWith({ NoNavigator })

NextServed ==
    \/ config = NoConfig /\ Configure(Cfg(None, FALSE))
    \/ \E tabs \in { << >>, << "home" >> } : AuthOk(TabAuth(tabs))
    \/ WaveDone
    \/ \E listener \in Listeners : ObserveOnce(HomeTitle, listener)
    \/ Translation("title", "home")
    \/ TabResponse("ok", ServerTab)
    \/ ColorsResponse("ok", << Slot("primary", "#fff") >>)
    \/ ImagesResponse("ok", << Slot("logo", "/logo.png") >>)

SpecServed == InitServed /\ [][NextServed]_vars /\ FairServed

----------------------------------------------------------------------------
(* C37.  Every request being answered with success: once translation of a  *)
(* key the server holds has been called in an authenticated session, the   *)
(* engine reaches a state in which translation returns the server's value  *)
(* and the channel of the reference holds it; and a channel never holds a  *)
(* value that one of its listeners was not invoked with, when the value    *)
(* arrived or when the listener joined.                                    *)

\* translation("title", "home") has just been called with a session token
Asked ==
    /\ last.op = "translation" /\ last.arg = << "title", "home" >>
    /\ config # NoConfig /\ authToken # None /\ cycle.pc # "auth"

\* translation returns the server's value and the channel holds it
Served ==
    /\ CachedTranslation(Cur, "home", "title") = "Hi"
    /\ \A i \in 1..Len(bindingChannels) :
          bindingChannels[i].reference = HomeTitle =>
              bindingChannels[i].lastValue = VStr("Hi")

\* the listener was invoked with the value in the step
InvokedWith(step, listener, value) ==
    \E j \in 1..Len(step.calls) :
        /\ step.calls[j].reference = HomeTitle
        /\ step.calls[j].listener = listener
        /\ step.calls[j].value = value

\* the listeners of the reference in the registry `channels'
ListenersOf(channels) ==
    UNION { Range(channels[i].listeners) :
              i \in { j \in 1..Len(channels) : channels[j].reference = HomeTitle } }

LastValueOf(channels) ==
    { channels[i].lastValue :
        i \in { j \in 1..Len(channels) : channels[j].reference = HomeTitle } }

C37_EventuallyServed ==
    /\ Asked ~> Served
    /\ [][ \A listener \in ListenersOf(bindingChannels') :
              \/ /\ listener \in ListenersOf(bindingChannels)
                 /\ LastValueOf(bindingChannels') = LastValueOf(bindingChannels)
              \/ \A value \in LastValueOf(bindingChannels') :
                     InvokedWith(last', listener, value) ]_vars

\* the value has arrived after the call: both listeners are invoked with
\* "Hi" by the response to the request
C37_Witness ==
    /\ last.op = "syncTab" /\ Served
    /\ InvokedWith(last, "f1", VStr("Hi")) /\ InvokedWith(last, "f2", VStr("Hi"))

----------------------------------------------------------------------------
(* C38.  The engine holds no socket but the one its latest authenticate-   *)
(* and-sync cycle opened: a cycle that ends with success for a project     *)
(* with a secret leaves a fresh socket, connecting, with no handshake of   *)
(* the previous socket left; a cycle that ends for a project without a     *)
(* secret leaves no socket of an earlier configuration connected or        *)
(* connecting.                                                             *)

CycleEnds(step) == step.op \in { "waveDone", "authError" }

C38_OnlyTheLatestSocket ==
    [][ /\ (last'.op = "waveDone" /\ ~ NoSecret') =>
              /\ socket' = "connecting"
              /\ handshake' = "none" /\ ~ handshakeAcknowledged'
        /\ (CycleEnds(last') /\ NoSecret') =>
              socket' \notin { "connected", "connecting" }
      ]_vars

\* the session of a project without a secret has completed its initial
\* sync; the socket opened for the project configured before is connected
C38_EarlierSocketConnected ==
    /\ last.op = "waveDone" /\ NoSecret
    /\ socket = "connected"

----------------------------------------------------------------------------
(* SpecHandle: unsubscribe functions that outlive their registration.  The *)
(* application observes "home:title", may observe it again with the same   *)
(* listener, and keeps the function the first observe returned.  A handle  *)
(* is "renewed" when the first function has been called and a later        *)
(* registration is live, "twice" when two registrations are live.          *)

ObserveAgain(reference, listener) ==
    /\ << reference, listener >> \in DOMAIN handles
    /\ handles[<< reference, listener >>] \in { "live", "called" }
    /\ LET e == ObserveE(Cur, reference, listener, VUndef)
       IN  /\ Bounded(e)
           /\ Engine(e)
           /\ last' = Step(e, "observe", << reference, listener >>)
    /\ handles' = Put(handles, << reference, listener >>,
                      IF handles[<< reference, listener >>] = "called"
                      THEN "renewed" ELSE "twice")

\* the function returned by the first observe is called while a later
\* registration of the same reference and listener is live
UnsubscribeFirst(reference, listener) ==
    /\ << reference, listener >> \in DOMAIN handles
    /\ handles[<< reference, listener >>] \in { "renewed", "twice" }
    /\ LET e == UnsubscribeE(Cur, reference, listener)
       IN  /\ Engine(e)
           /\ last' = Step(e, "unsubscribeFirst", << reference, listener >>)
    /\ handles' = Put(handles, << reference, listener >>, "renewed")

InitHandle == InitWith({ NoNavigator })

NextHandle ==
    \/ config = NoConfig /\ Configure(Cfg(None, FALSE))
    \/ AuthOk(BindAuth("tok1"))
    \/ WaveDone
    \/ \E listener \in Listeners : ObserveOnce(HomeTitle, listener)
    \/ \E listener \in Listeners : ObserveAgain(HomeTitle, listener)
    \/ \E h \in DOMAIN handles : Unsubscribe(h[1], h[2])
    \/ \E h \in DOMAIN handles : UnsubscribeFirst(h[1], h[2])
    \/ TabResponse("ok", << Item("title", HiSalut) >>)
    \/ ColorsResponse("error", << >>)
    \/ ImagesResponse("error", << >>)

SpecHandle == InitHandle /\ [][NextHandle]_vars

----------------------------------------------------------------------------
(* C39.  An unsubscribe function removes only the registration that        *)
(* created it: called a second time, or after the same reference and       *)
(* listener were observed again, it leaves the later registration, so the  *)
(* listener is still on the channel of the reference.                      *)

Registered(channels, reference, listener) ==
    \E i \in 1..Len(channels) :
        /\ channels[i].reference = reference
        /\ listener \in Range(channels[i].listeners)

C39_RemovesOnlyItsOwn ==
    [][ last'.op = "unsubscribeFirst" =>
            Registered(bindingChannels', last'.arg[1], last'.arg[2])
      ]_vars

\* the function of the first observe has been called while a later
\* registration of the same listener was live: the listener of that
\* registration is gone, and so is the channel
C39_LaterRegistrationRemoved ==
    /\ last.op = "unsubscribeFirst"
    /\ handles[<< HomeTitle, "f1" >>] = "renewed"
    /\ ~ Registered(bindingChannels, HomeTitle, "f1")
    /\ HomeTitle \notin ChannelRefs(bindingChannels)

----------------------------------------------------------------------------
(* Locale detection for server-side integrations (cmscure.js 907-1024).    *)
(* A text is a sequence of characters, carried as VStr(chars); a request   *)
(* field or an option is a text, a number, null or undefined.              *)

UpperCase == << "A", "C", "D", "E", "F", "N", "R", "S", "U" >>
LowerCase == << "a", "c", "d", "e", "f", "n", "r", "s", "u" >>
Letters == Range(LowerCase) \cup { "x" }
WhiteSpace == { " " }

\* String.prototype.toLowerCase
ToLowerCase(chars) ==
    [ i \in 1..Len(chars) |->
        IF \E j \in 1..Len(UpperCase) : UpperCase[j] = chars[i]
        THEN LowerCase[CHOOSE j \in 1..Len(UpperCase) : UpperCase[j] = chars[i]]
        ELSE chars[i] ]

\* String.prototype.trim
TrimText(chars) ==
    LET kept == { i \in 1..Len(chars) : chars[i] \notin WhiteSpace }
    IN  IF kept = {} THEN << >>
        ELSE LET lo == CHOOSE i \in kept : \A j \in kept : i <= j
                 hi == CHOOSE i \in kept : \A j \in kept : j <= i
             IN  SubSeq(chars, lo, hi)

\* split(/[-_]/)[0]
PrimaryOf(chars) ==
    LET seps == { i \in 1..Len(chars) : chars[i] \in { "-", "_" } }
    IN  IF seps = {} THEN chars
        ELSE SubSeq(chars, 1, (CHOOSE i \in seps : \A j \in seps : i <= j) - 1)

DEFAULT_LOCALE_FALLBACK == VStr(<< "e", "n" >>)

\* normalizeLocaleCode, cmscure.js 910-925: a text of two or three letters,
\* or null
NormalizeLocaleCode(locale) ==
    IF locale[1] # "string" \/ locale[2] = << >> THEN VNull
    ELSE LET trimmed == ToLowerCase(TrimText(locale[2]))
             primary == PrimaryOf(trimmed)
         IN  IF trimmed = << >> THEN VNull
             ELSE IF Len(primary) \in 2..3 /\ \A i \in 1..Len(primary) :
                                                  primary[i] \in Letters
             THEN VStr(primary)
             ELSE VNull

\* a || b
OrElse(a, b) == IF a = VNull \/ a = VUndef THEN b ELSE a

\* An Accept-Language header is the sequence of its comma-separated
\* entries, each a code and a quality in tenths; no quality, or one that
\* does not parse, is -1.
Entry(code, q) == [ code |-> code, q |-> q ]

\* parseFloat(...) || 1.0
QualityOf(entry) == IF entry.q <= 0 THEN 10 ELSE entry.q

\* parseAcceptLanguageHeader, cmscure.js 927-943: the code of the first
\* entry of the highest quality, in lower case
ParseAcceptLanguageHeader(acceptLanguage) ==
    LET best == CHOOSE i \in 1..Len(acceptLanguage) :
                    /\ \A j \in 1..Len(acceptLanguage) :
                          QualityOf(acceptLanguage[j]) <= QualityOf(acceptLanguage[i])
                    /\ \A j \in 1..(i - 1) :
                          QualityOf(acceptLanguage[j]) < QualityOf(acceptLanguage[i])
    IN  VStr(ToLowerCase(acceptLanguage[best].code))

\* A request: the fields of its query and body and its x-locale header, and
\* its Accept-Language header (no entry: the header is absent).
Request(language, bodyLanguage, xLocale, locale, lang, bodyLocale, bodyLang,
        acceptLanguage) ==
    [ query |-> [ language |-> language, locale |-> locale, lang |-> lang ],
      body |-> [ language |-> bodyLanguage, locale |-> bodyLocale,
                 lang |-> bodyLang ],
      xLocale |-> xLocale, acceptLanguage |-> acceptLanguage ]

\* options: availableLanguages is an array or absent
Options(fallback, hasAvailable, available) ==
    [ fallback |-> fallback, hasAvailable |-> hasAvailable,
      availableLanguages |-> available ]

\* options.availableLanguages.map(normalizeLocaleCode).filter(Boolean)
RECURSIVE NormalizedAvailable(_)
NormalizedAvailable(items) ==
    IF items = << >> THEN << >>
    ELSE LET n == NormalizeLocaleCode(Head(items))
         IN  (IF n = VNull THEN << >> ELSE << n >>)
               \o NormalizedAvailable(Tail(items))

\* the first candidate that normalises, cmscure.js 995-1008
RECURSIVE FirstNormalized(_, _)
FirstNormalized(candidates, fallback) ==
    IF candidates = << >> THEN fallback
    ELSE LET value == Head(candidates)
         IN  IF value = VNull \/ value = VUndef
             THEN FirstNormalized(Tail(candidates), fallback)
             ELSE IF NormalizeLocaleCode(value) # VNull
             THEN NormalizeLocaleCode(value)
             ELSE FirstNormalized(Tail(candidates), fallback)

\* detectLocaleFromRequest, cmscure.js 961-1024
DetectLocaleFromRequest(req, options) ==
    LET fallback == OrElse(NormalizeLocaleCode(options.fallback),
                           DEFAULT_LOCALE_FALLBACK)
        available == IF options.hasAvailable
                     THEN NormalizedAvailable(options.availableLanguages)
                     ELSE << >>
        candidates ==
            << Coalesce(req.query.language, req.body.language), req.xLocale,
               Coalesce(req.query.locale, req.query.lang),
               Coalesce(req.body.locale, req.body.lang) >>
              \o (IF req.acceptLanguage # << >>
                  THEN << ParseAcceptLanguageHeader(req.acceptLanguage) >>
                  ELSE << >>)
        found == FirstNormalized(candidates, fallback)
        applied == available # << >> /\ ~ Includes(available, found)
        fallbackCandidate ==
            OrElse(NormalizeLocaleCode(options.fallback),
                   IF available # << >> THEN available[1] ELSE fallback)
    IN  [ detected |-> IF applied THEN fallbackCandidate ELSE found,
          fallback |-> fallback, available |-> available,
          appliedFallback |-> applied ]

----------------------------------------------------------------------------
(* SpecLocale: a server calls detectLocaleFromRequest with a request and   *)
(* options drawn from the sets below; the engine is not involved.          *)

En == VStr(<< "e", "n" >>)
FrUpper == VStr(<< "F", "R" >>)
DeTag == VStr(<< "d", "e", "-", "D", "E" >>)
EsPadded == VStr(<< " ", "e", "s", " " >>)
Digits == VStr(<< "1", "2" >>)

AcceptHeaders ==
    { << >>,
      << Entry(<< "f", "r", "-", "C", "A" >>, -1), Entry(<< "e", "n" >>, 8) >>,
      << Entry(<< "e", "n" >>, 5), Entry(<< "d", "e" >>, 9) >>,
      << Entry(<< "*" >>, -1) >> }

AvailableLists ==
    { << En, FrUpper >>, << VStr(<< "e", "n", "_", "U", "S" >>) >>,
      << Digits, DeTag >>, << Digits >>, << >> }

FallbackOptions == { VUndef, En, DeTag, Digits }

\* the requests: the SDK parameter, the x-locale header and the
\* Accept-Language header in every combination, and the query and body
\* fields one or two at a time
Requests ==
    { Request(l, VUndef, x, VUndef, VUndef, VUndef, VUndef, a) :
        l \in { VUndef, EsPadded }, x \in { VUndef, Digits },
        a \in AcceptHeaders }
      \cup { Request(VNull, bl, VUndef, lc, En, blc, VUndef, << >>) :
               bl \in { VUndef, FrUpper }, lc \in { VUndef, VNumber(7) },
               blc \in { VNull, DeTag } }
      \cup { Request(VUndef, VUndef, VUndef, VUndef, VUndef, VUndef, blg, << >>) :
               blg \in { FrUpper, VNumber(7) } }

DetectLocale(req, options) ==
    /\ config = NoConfig
    /\ Commit([ Cur EXCEPT !.ret = DetectLocaleFromRequest(req, options) ],
              "detectLocaleFromRequest", << req, options >>)

InitLocale == InitWith({ NoNavigator })

NextLocale ==
    \E req \in Requests, fallback \in FallbackOptions, hasAvailable \in BOOLEAN,
       available \in AvailableLists :
        /\ ~ hasAvailable => available = << >>
        /\ DetectLocale(req, Options(fallback, hasAvailable, available))

SpecLocale == InitLocale /\ [][NextLocale]_vars

----------------------------------------------------------------------------
(* C40.  Called with a non-empty availableLanguages option, the function   *)
(* returns a detected locale that is a member of the normalised list, for  *)
(* every request and every fallback.                                       *)

C40_DetectedIsAvailable ==
    (last.op = "detectLocaleFromRequest"
        /\ last.arg[2].hasAvailable /\ last.arg[2].availableLanguages # << >>)
      => Includes(last.ret.available, last.ret.detected)

\* the request asks for "es", the list is en, fr and the fallback option is
\* "de-DE": the function answers "de"
C40_FallbackOutsideList ==
    /\ last.op = "detectLocaleFromRequest"
    /\ last.arg[1].query.language = EsPadded
    /\ last.arg[2].fallback = DeTag
    /\ last.ret.available = << VStr(<< "e", "n" >>), VStr(<< "f", "r" >>) >>
    /\ last.ret.appliedFallback
    /\ last.ret.detected = VStr(<< "d", "e" >>)
====
